---- MODULE Spec2Model ----
(***************************************************************************)
(* A model of the AI Disaster Scanner pipeline (src/lib_scanner.py, with   *)
(* the CLI copies in src/cli/): pattern catalogs, the text classifiers,    *)
(* the audit-angle generator, the three source scanners, deduplicate and   *)
(* the aggregation of run_scan / generate_dashboard.                       *)
(*                                                                         *)
(* Texts are TLA+ strings.  Patterns are the source's regular expressions, *)
(* written as in the source (a backslash is written \\), and re.search is  *)
(* modelled by an interpreter for the regex subset the catalogs use.       *)
(*                                                                         *)
(* A value that is used several times is bound by a quantifier over a      *)
(* singleton set ({F(x) : x \in {v}}, \E x \in {v} : ..., Let), which       *)
(* evaluates it once; a LET definition or an operator argument may be      *)
(* evaluated again at each use.                                            *)
(***************************************************************************)
EXTENDS Integers, Sequences, FiniteSets, TLC

\* F(v), with v evaluated once
Let(v, F(_)) == CHOOSE r \in {F(x) : x \in {v}} : TRUE

-----------------------------------------------------------------------------
(* Strings                                                                 *)

Char(s, i) == SubSeq(s, i, i)

UpperChars == "ABCDEFGHIJKLMNOPQRSTUVWXYZ"
LowerChars == "abcdefghijklmnopqrstuvwxyz"
DigitChars == "0123456789"

IndexOf(c, str) ==
    IF \E i \in 1..Len(str) : Char(str, i) = c
    THEN CHOOSE i \in 1..Len(str) : Char(str, i) = c
    ELSE 0

LowerChar(c) ==
    LET k == IndexOf(c, UpperChars) IN IF k = 0 THEN c ELSE Char(LowerChars, k)

\* str.lower(), by halves (the recursion stays shallow on long texts)
RECURSIVE lower(_)
lower(s) ==
    IF Len(s) = 0 THEN ""
    ELSE IF Len(s) = 1 THEN LowerChar(s)
    ELSE LET h == Len(s) \div 2
         IN  lower(SubSeq(s, 1, h)) \o lower(SubSeq(s, h + 1, Len(s)))

\* the characters \s matches, and the ones str.strip() / str.split() drop
IsSpace(c) == c \in {" ", "\t", "\n", "\r", "\f"}

\* the characters \w matches (decides \b)
IsWordChar(c) == IndexOf(c, LowerChars \o UpperChars \o DigitChars \o "_") # 0

Min(S) == CHOOSE x \in S : \A y \in S : x <= y
Max(S) == CHOOSE x \in S : \A y \in S : x >= y

\* the indices of the characters of s that are not whitespace
NonSpace(s) == {i \in 1..Len(s) : ~IsSpace(Char(s, i))}

\* str.strip()
strip(s) ==
    IF NonSpace(s) = {} THEN "" ELSE SubSeq(s, Min(NonSpace(s)), Max(NonSpace(s)))

\* s[:n]
Prefix(s, n) == SubSeq(s, 1, IF Len(s) < n THEN Len(s) ELSE n)

\* the index of the last character of the word of s that starts at index i
WordEnd(s, i) == Min({j \in i..Len(s) : j = Len(s) \/ IsSpace(Char(s, j + 1))})

\* set(s.split()): the maximal runs of non-whitespace characters of s
SplitWords(s) ==
    {SubSeq(s, i, WordEnd(s, i)) :
        i \in {k \in NonSpace(s) : k = 1 \/ IsSpace(Char(s, k - 1))}}

Range(f) == {f[i] : i \in DOMAIN f}

\* the elements of list at the indices K, in order
Select(list, K) ==
    [n \in 1..Cardinality(K) |->
        list[CHOOSE k \in K : Cardinality({j \in K : j < k}) = n - 1]]

-----------------------------------------------------------------------------
(* re.search for the regex subset of the catalogs: literals, ".", "\s",    *)
(* "\b", "[...]", groups with alternation, and the quantifiers + * ?.      *)
(* A position is the number of characters of the text already consumed;    *)
(* matching maps a set of start positions to the set of end positions, so  *)
(* a match exists iff the result is non-empty.                             *)

\* p[i] is a parenthesis c that is not escaped
IsParen(p, i, c) == Char(p, i) = c /\ ~(i > 1 /\ Char(p, i - 1) = "\\")

\* the number of groups of p[a..] that are open just before index k
Depth(p, a, k) ==
    Cardinality({i \in a..(k - 1) : IsParen(p, i, "(")})
        - Cardinality({i \in a..(k - 1) : IsParen(p, i, ")")})

\* last index of the atom that starts at p[a]: an escape, a group up to its
\* closing parenthesis, a character class up to its bracket, or one character
AtomEnd(p, a) ==
    LET c == Char(p, a) IN
    IF c = "\\" THEN a + 1
    ELSE IF c = "(" THEN Min({e \in (a + 1)..Len(p) : IsParen(p, e, ")") /\ Depth(p, a, e) = 1})
    ELSE IF c = "[" THEN Min({e \in (a + 1)..Len(p) : Char(p, e) = "]"})
    ELSE a

\* the indices of the top-level "|" of p[a..b]
Bars(p, a, b) == {k \in a..b : Char(p, k) = "|" /\ Depth(p, a, k) = 0}

\* does the one-character atom p[a..e] match the character c
CharMatches(p, a, e, c) ==
    LET k == Char(p, a) IN
    IF k = "\\" THEN (Char(p, a + 1) = "s" /\ IsSpace(c))
    ELSE IF k = "[" THEN \E i \in (a + 1)..(e - 1) : Char(p, i) = c
    ELSE IF k = "." THEN c # "\n"
    ELSE k = c

\* \b at position i of s
AtBoundary(s, i) ==
    LET before == i > 0 /\ IsWordChar(Char(s, i))
        after  == i < Len(s) /\ IsWordChar(Char(s, i + 1))
    IN  before # after

RECURSIVE MatchAlt(_, _, _, _, _)
RECURSIVE MatchCat(_, _, _, _, _)

\* one match of the atom p[a..e] from each position of P
Step(p, a, e, s, P) ==
    IF Char(p, a) = "(" THEN MatchAlt(p, a + 1, e - 1, s, P)
    ELSE IF Char(p, a) = "\\" /\ Char(p, a + 1) = "b"
         THEN {i \in P : AtBoundary(s, i)}
    ELSE {i + 1 : i \in {j \in P : j < Len(s) /\ CharMatches(p, a, e, Char(s, j + 1))}}

\* zero or more matches of the one-character atom p[a..e] from a position of
\* P (the catalogs repeat one-character atoms only)
Star(p, a, e, s, P) ==
    {j \in 0..Len(s) :
        \E i \in P : i <= j /\ \A k \in (i + 1)..j : CharMatches(p, a, e, Char(s, k))}

\* the quantifier that follows the atom ending at p[e], "" if there is none
Quantifier(p, e, b) ==
    IF e < b /\ Char(p, e + 1) \in {"+", "*", "?"} THEN Char(p, e + 1) ELSE ""

\* the atom p[a..e] with its quantifier q, matched from P
Quantified(p, a, e, q, s, P) ==
    IF q = "+" THEN Star(p, a, e, s, Step(p, a, e, s, P))
    ELSE IF q = "*" THEN Star(p, a, e, s, P)
    ELSE IF q = "?" THEN P \cup Step(p, a, e, s, P)
    ELSE Step(p, a, e, s, P)

\* the atoms of p[a..b] one after the other, matched from P
MatchCat(p, a, b, s, P) ==
    IF a > b \/ P = {} THEN P
    ELSE UNION {
            UNION {
                UNION { MatchCat(p, e + Len(q) + 1, b, s, Q) :
                            Q \in {Quantified(p, a, e, q, s, P)} } :
                q \in {Quantifier(p, e, b)} } :
            e \in {AtomEnd(p, a)} }

\* the alternatives of p[a..b], each matched from P
MatchAlt(p, a, b, s, P) ==
    LET bars == Bars(p, a, b)
        last(x) == Min({k - 1 : k \in {k \in bars : k >= x}} \cup {b})
    IN  UNION {MatchCat(p, x, last(x), s, P) : x \in {a} \cup {k + 1 : k \in bars}}

\* re.match(pattern, text) is not None: the pattern matches at the start
re_match(pattern, text) ==
    \E p \in {pattern} : \E s \in {text} : MatchAlt(p, 1, Len(p), s, {0}) # {}

\* re.search(pattern, text) is not None
re_search(pattern, text) ==
    \E p \in {pattern} : \E s \in {text} : MatchAlt(p, 1, Len(p), s, 0..Len(s)) # {}

-----------------------------------------------------------------------------
(* Pattern catalogs.  A Python dict is a sequence of entries in insertion  *)
(* order, which is the order its items() are iterated in.                  *)

LAYER_SIGNALS == <<
    [label |-> "L1", patterns |-> <<
        "energy\\s+consumption", "power\\s+grid", "data\\s+cent(er|re)\\s+(power|energy|outage)",
        "gpu\\s+shortage", "compute\\s+cost", "carbon\\s+footprint\\s+ai",
        "electricity\\s+demand\\s+ai", "cooling\\s+(fail|cost)" >>],
    [label |-> "L2", patterns |-> <<
        "cloud\\s+outage", "aws\\s+(outage|down)", "azure\\s+(outage|down)", "gcp\\s+(outage|down)",
        "gpu\\s+supply", "chip\\s+shortage", "tsmc", "nvidia\\s+(shortage|supply|dominan)",
        "infrastructure\\s+fail", "server\\s+(crash|outage|fail)", "api\\s+(outage|down)" >>],
    [label |-> "L3", patterns |-> <<
        "transformer\\s+(limit|plateau|bottleneck)", "scaling\\s+law\\s+(plateau|limit|diminish)",
        "architecture\\s+(flaw|limit)", "model\\s+collapse",
        "training\\s+on\\s+(ai|synthetic)\\s+data", "paradigm\\s+(shift|lock)" >>],
    [label |-> "L4", patterns |-> <<
        "hallucin", "confabul", "fabricat(ed|ing)\\s+(information|citation|reference|fact)",
        "bias(ed)?\\s+(output|model|algorithm|training\\s+data)",
        "incorrect\\s+(information|answer|response|advice)", "false\\s+(information|claim|answer)",
        "misinformation", "wrong\\s+(answer|information|advice)", "inaccura(te|cy)",
        "ai\\s+(error|mistake|blunder|gaffe)", "deepfake", "alignment\\s+(fail|problem)",
        "jailbreak" >>],
    [label |-> "L5", patterns |-> <<
        "data\\s+(leak|breach|expos).*\\b(ai|chatbot|llm|gpt|claude|gemini)\\b",
        "(ai|chatbot|llm|gpt).*data\\s+(leak|breach|expos)", "prompt\\s+injection",
        "api\\s+deprecat", "vendor\\s+lock", "chatbot\\s+(fail|error|wrong|mislead|sued|lawsuit)",
        "ai\\s+tool\\s+(fail|error|bug|crash)", "shadow\\s+ai",
        "(copyright|ip)\\s+(infring|violat|lawsuit).*ai" >>],
    [label |-> "L6", patterns |-> <<
        "autonom(ous|y)\\s+(vehicle|car|driv|crash|accident)",
        "self.driving\\s+(crash|accident|fail|recall)",
        "ai\\s+(medical|healthcare|diagnos|treatment)\\s*(error|fail|wrong|harm|death)",
        "algorithm(ic)?\\s+(deny|denial|reject|discriminat|bias)",
        "ai\\s+(hiring|recruit|hr)\\s*(bias|discriminat|lawsuit|fail)", "ai\\s+weapon",
        "drone\\s+(strike|attack|fail).*ai", "robotic\\s+(surgery|procedure)\\s*(fail|error|harm)",
        "cascading\\s+fail", "liability\\s+gap" >>],
    [label |-> "L7", patterns |-> <<
        "(ai|chatbot)\\s*(dependency|addict|attachment|relian)", "deskill",
        "cognitive\\s+(atrophy|decline|offload|dependency)",
        "(replac|eliminat|lay\\s*off|fire|cut).*\\b(worker|employee|staff|job|human)\\b.*\\bai\\b",
        "\\bai\\b.*(replac|eliminat|lay\\s*off|fire|cut).*\\b(worker|employee|staff|job|human)\\b",
        "(mental\\s+health|suicide|self.harm).*\\b(ai|chatbot)\\b",
        "\\b(ai|chatbot)\\b.*(mental\\s+health|suicide|self.harm)",
        "emotional\\s*(support|companion|relationship).*ai", "ai\\s+companion",
        "trust\\s+(miscalibr|erosion|crisis).*ai", "human\\s+oversight\\s*(fail|lack|absent)",
        "ai\\s+replace.*human\\s+judgment", "over.?relian(ce)?.*\\bai\\b" >>]
    >>

METRIC_SIGNALS == <<
    [label |-> "MY", patterns |-> <<
        "roi\\b", "cost\\s+saving", "productivity", "efficien", "value", "spend" >>],
    [label |-> "CRR", patterns |-> <<
        "deskill", "without\\s+ai", "human\\s+(capability|skill|competenc)", "cognitive\\s+reserve" >>],
    [label |-> "BAI", patterns |-> <<
        "dependen", "outage\\s+impact", "can.?t\\s+function\\s+without",
        "single\\s+point\\s+of\\s+fail" >>],
    [label |-> "HR", patterns |-> <<
        "hallucin", "unverified", "fabricat", "incorrect", "inaccura", "wrong\\s+answer" >>],
    [label |-> "HHI", patterns |-> <<
        "vendor\\s+(lock|concentrat|single)", "single\\s+provider",
        "(aws|azure|openai|google)\\s+only" >>],
    [label |-> "MG", patterns |-> <<
        "systemic", "multiple\\s+(fail|risk|layer)", "compound", "cascad" >>]
    >>

critical_patterns == <<
    "death", "killed", "fatal", "suicide", "class.?action", "billion" >>

high_patterns == <<
    "lawsuit", "sued", "recall", "banned", "fired", "million\\s+dollar", "million\\s+loss" >>

medium_patterns == <<
    "error", "mistake", "wrong", "inaccura", "mislead", "fail" >>

industries == <<
    [label |-> "Healthcare", patterns |-> <<
        "health", "medical", "hospital", "patient", "pharma", "drug", "medicare", "diagnos" >>],
    [label |-> "Finance", patterns |-> <<
        "bank", "financ", "insur", "trading", "invest", "fintech", "payment", "loan" >>],
    [label |-> "Automotive", patterns |-> <<
        "self.driv", "autonom.*vehicle", "tesla", "waymo", "cruise", "car\\s+crash" >>],
    [label |-> "Legal", patterns |-> <<
        "lawyer", "legal", "law\\s+firm", "court", "judge", "attorney" >>],
    [label |-> "Education", patterns |-> <<
        "school", "student", "university", "educat", "academic", "cheating" >>],
    [label |-> "Retail", patterns |-> <<
        "retail", "e.?commerce", "shopping", "consumer", "customer\\s+service" >>],
    [label |-> "Media", patterns |-> <<
        "news", "journal", "publish", "media", "content\\s+moderat" >>],
    [label |-> "Tech", patterns |-> <<
        "software", "saas", "cloud", "platform", "developer", "startup" >>],
    [label |-> "Government", patterns |-> <<
        "government", "public\\s+sector", "polic", "military", "defense", "regulat" >>],
    [label |-> "HR/Recruitment", patterns |-> <<
        "hiring", "recruit", "resume", "hr\\b", "workforce", "employ" >>]
    >>

-----------------------------------------------------------------------------
(* Text classifiers                                                        *)

\* "for p in patterns: if re.search(p, text): ..." -- the index of the first
\* pattern of the list that matches, 0 if the loop ends without a match
RECURSIVE FirstMatch(_, _, _)
FirstMatch(patterns, text, i) ==
    IF i > Len(patterns) THEN 0
    ELSE IF re_search(patterns[i], text) THEN i
    ELSE FirstMatch(patterns, text, i + 1)

\* the loop over the items of a signal catalog returning at the first label
\* that matches
RECURSIVE MatchedLabelsFirstOnly(_, _, _, _)
MatchedLabelsFirstOnly(signals, text, k, matched) ==
    IF k > Len(signals) THEN matched
    ELSE IF FirstMatch(signals[k].patterns, text, 1) # 0 THEN Append(matched, signals[k].label)
    ELSE MatchedLabelsFirstOnly(signals, text, k + 1, matched)

\* the loop over the items of a signal catalog from entry k on: a label is
\* appended to matched when one of its patterns matches (then break)
RECURSIVE MatchedLabels(_, _, _, _)
MatchedLabels(signals, text, k, matched) ==
    IF k > Len(signals) THEN matched
    ELSE MatchedLabels(signals, text, k + 1,
            IF FirstMatch(signals[k].patterns, text, 1) # 0
            THEN Append(matched, signals[k].label)
            ELSE matched)

\* classify_sira_layers without "if not matched: matched.append('L4')"
classify_sira_layers_no_default(text) ==
    Let(lower(text), LAMBDA text_lower : MatchedLabels(LAYER_SIGNALS, text_lower, 1, <<>>))

classify_sira_layers(text) ==
    Let(lower(text), LAMBDA text_lower :
        Let(MatchedLabels(LAYER_SIGNALS, text_lower, 1, <<>>), LAMBDA matched :
            IF matched # <<>> THEN matched ELSE <<"L4">>))

\* classify_sira_metrics without "if not matched: matched.append('MG')"
classify_sira_metrics_no_default(text) ==
    Let(lower(text), LAMBDA text_lower : MatchedLabels(METRIC_SIGNALS, text_lower, 1, <<>>))

classify_sira_metrics(text) ==
    Let(lower(text), LAMBDA text_lower :
        Let(MatchedLabels(METRIC_SIGNALS, text_lower, 1, <<>>), LAMBDA matched :
            IF matched # <<>> THEN matched ELSE <<"MG">>))

\* estimate_severity with the loop over medium_patterns placed first
estimate_severity_medium_first(text) ==
    Let(lower(text), LAMBDA text_lower :
        IF FirstMatch(medium_patterns, text_lower, 1) # 0 THEN "Medium"
        ELSE IF FirstMatch(critical_patterns, text_lower, 1) # 0 THEN "Critical"
        ELSE IF FirstMatch(high_patterns, text_lower, 1) # 0 THEN "High"
        ELSE "Low")

\* estimate_severity without the loop over high_patterns
estimate_severity_no_high(text) ==
    Let(lower(text), LAMBDA text_lower :
        IF FirstMatch(critical_patterns, text_lower, 1) # 0 THEN "Critical"
        ELSE IF FirstMatch(medium_patterns, text_lower, 1) # 0 THEN "Medium"
        ELSE "Low")

estimate_severity(text) ==
    Let(lower(text), LAMBDA text_lower :
        IF FirstMatch(critical_patterns, text_lower, 1) # 0 THEN "Critical"
        ELSE IF FirstMatch(high_patterns, text_lower, 1) # 0 THEN "High"
        ELSE IF FirstMatch(medium_patterns, text_lower, 1) # 0 THEN "Medium"
        ELSE "Low")

\* the loop over industries.items() from entry k on: return at the first match
RECURSIVE IndustryFrom(_, _)
IndustryFrom(text, k) ==
    IF k > Len(industries) THEN "General/Cross-Industry"
    ELSE IF FirstMatch(industries[k].patterns, text, 1) # 0 THEN industries[k].label
    ELSE IndustryFrom(text, k + 1)

\* detect_industry remembering each match instead of returning at the first one
detect_industry_last_match(text) ==
    Let(lower(text), LAMBDA text_lower :
        Let({k \in DOMAIN industries : FirstMatch(industries[k].patterns, text_lower, 1) # 0},
            LAMBDA hits : IF hits = {} THEN "General/Cross-Industry"
                          ELSE industries[Max(hits)].label))

\* detect_industry leaving the constructor's "Unknown" when nothing matches
detect_industry_unknown_default(text) ==
    Let(lower(text), LAMBDA text_lower :
        Let(IndustryFrom(text_lower, 1), LAMBDA industry :
            IF industry = "General/Cross-Industry" THEN "Unknown" ELSE industry))

detect_industry(text) == Let(lower(text), LAMBDA text_lower : IndustryFrom(text_lower, 1))

\* x in list
In(x, list) == \E i \in DOMAIN list : list[i] = x

\* sep.join(list)
RECURSIVE join(_, _)
join(sep, list) ==
    IF list = <<>> THEN ""
    ELSE IF Len(list) = 1 THEN list[1]
    ELSE list[1] \o sep \o join(sep, Tail(list))

\* the messages of the rules that trigger, in the order of the if statements
\* (the em dash of the messages is written "--")
triggered_angles(event) ==
    LET a1 == IF In("L7", event.sira_layers)
              THEN <<"Human cognitive dependency was the unexamined risk">> ELSE <<>>
        a2 == IF In("HR", event.sira_metrics)
              THEN <<"Unverified AI output was carried as completed work -- phantom value">>
              ELSE <<>>
        a3 == IF In("HHI", event.sira_metrics)
              THEN <<"Single-vendor concentration created fragility">> ELSE <<>>
        a4 == IF In("L6", event.sira_layers)
              THEN <<"AI was integrated into critical decisions without adequate human override">>
              ELSE <<>>
        a5 == IF In("BAI", event.sira_metrics)
              THEN <<"High beta-AI: productivity collapsed when AI failed">> ELSE <<>>
        a6 == IF In("CRR", event.sira_metrics)
              THEN <<"CRR was never measured -- nobody knew if the team could function without AI">>
              ELSE <<>>
        a7 == IF In("MY", event.sira_metrics)
              THEN <<"Gross multiplier looked impressive; risk-adjusted return tells a different story">>
              ELSE <<>>
    IN  a1 \o a2 \o a3 \o a4 \o a5 \o a6 \o a7

\* f"SIRA layers {', '.join(event.sira_layers)} exposed -- standard risk assessment missed this"
fallback_angle(event) ==
    "SIRA layers " \o join(", ", event.sira_layers)
        \o " exposed -- standard risk assessment missed this"

\* ". ".join(angles[:3]) + "."
generate_audit_angle_first_three(event) ==
    LET angles == IF triggered_angles(event) = <<>>
                  THEN <<fallback_angle(event)>> ELSE triggered_angles(event)
    IN  join(". ", SubSeq(angles, 1, IF Len(angles) < 3 THEN Len(angles) ELSE 3)) \o "."

\* the fallback is appended whether a rule triggered or not
generate_audit_angle_with_fallback(event) ==
    LET angles == triggered_angles(event) \o <<fallback_angle(event)>>
    IN  join(". ", SubSeq(angles, 1, IF Len(angles) < 2 THEN Len(angles) ELSE 2)) \o "."

generate_audit_angle(event) ==
    LET angles == IF triggered_angles(event) = <<>>
                  THEN <<fallback_angle(event)>> ELSE triggered_angles(event)
    IN  join(". ", SubSeq(angles, 1, IF Len(angles) < 2 THEN Len(angles) ELSE 2)) \o "."

-----------------------------------------------------------------------------
(* Dates.  A time is the tuple <<year, month, day, hour, minute, second>>  *)
(* of published_parsed[:6]; None is the empty tuple.                       *)

None == <<>>

IsLeap(y) == (y % 4 = 0 /\ y % 100 # 0) \/ y % 400 = 0

DaysInMonth(y, m) ==
    IF m = 2 THEN (IF IsLeap(y) THEN 29 ELSE 28)
    ELSE IF m \in {4, 6, 9, 11} THEN 30 ELSE 31

\* datetime(*t) accepts the tuple (otherwise it raises ValueError/TypeError)
ValidTime(t) ==
    /\ Len(t) = 6
    /\ t[1] \in 1..9999
    /\ t[2] \in 1..12
    /\ t[3] \in 1..DaysInMonth(t[1], t[2])
    /\ t[4] \in 0..23 /\ t[5] \in 0..59 /\ t[6] \in 0..59

RECURSIVE DaysBeforeMonth(_, _)
DaysBeforeMonth(y, m) ==
    IF m = 1 THEN 0 ELSE DaysBeforeMonth(y, m - 1) + DaysInMonth(y, m - 1)

\* date.toordinal()
Ordinal(t) ==
    LET y == t[1] - 1
    IN  y * 365 + (y \div 4) - (y \div 100) + (y \div 400) + DaysBeforeMonth(t[1], t[2]) + t[3]

SecondOfDay(t) == (t[4] * 60 + t[5]) * 60 + t[6]

\* pub_dt >= now - timedelta(days=days)
NotBeforeCutoff(pub_dt, now, days) ==
    \/ Ordinal(pub_dt) > Ordinal(now) - days
    \/ Ordinal(pub_dt) = Ordinal(now) - days /\ SecondOfDay(pub_dt) >= SecondOfDay(now)

\* str(n) for n >= 0
RECURSIVE str(_)
str(n) == IF n < 10 THEN Char(DigitChars, n + 1) ELSE str(n \div 10) \o Char(DigitChars, (n % 10) + 1)

\* n formatted in at least w digits, zero-padded
RECURSIVE ZeroPad(_, _)
ZeroPad(n, w) == IF Len(str(n)) >= w THEN str(n) ELSE "0" \o ZeroPad(n, w - 1)

\* pub_dt.strftime("%Y-%m-%d")
strftime(t) == ZeroPad(t[1], 4) \o "-" \o ZeroPad(t[2], 2) \o "-" \o ZeroPad(t[3], 2)

-----------------------------------------------------------------------------
(* What the sources deliver.  A feed entry and an incident are records     *)
(* holding the fields the source delivered; d.get(key, default) reads them.*)

Get(d, key, default) == IF key \in DOMAIN d THEN d[key] ELSE default

\* hasattr(entry, key) and entry[key]
Has(entry, key) == key \in DOMAIN entry /\ entry[key] # None

\* position i is inside a tag "<...>": after a "<" (at one of the positions
\* opens) with no ">" (at one of the positions closes) in between
InTag(i, opens, closes) ==
    \E a \in opens : a <= i /\ ~ \E k \in closes : a <= k /\ k < i

\* the characters of s[a..b] outside tags (by halves, as lower)
RECURSIVE OutsideTags(_, _, _, _, _)
OutsideTags(s, a, b, opens, closes) ==
    IF a > b THEN ""
    ELSE IF a = b THEN (IF InTag(a, opens, closes) THEN "" ELSE Char(s, a))
    ELSE OutsideTags(s, a, (a + b) \div 2, opens, closes)
            \o OutsideTags(s, (a + b) \div 2 + 1, b, opens, closes)

\* BeautifulSoup(summary, "html.parser").get_text(): the text between the tags
\* (the summaries of the model hold tags, but no character references,
\* comments or scripts)
get_text(summary) ==
    Let({i \in 1..Len(summary) : Char(summary, i) = "<"}, LAMBDA opens :
        IF opens = {} THEN summary
        ELSE Let({i \in 1..Len(summary) : Char(summary, i) = ">"}, LAMBDA closes :
                OutsideTags(summary, 1, Len(summary), opens, closes)))

\* the summary text and the combined text of a feed entry
EntrySummary(entry) ==
    Prefix(get_text(Get(entry, "summary", Get(entry, "description", ""))), 500)

EntryCombined(entry) == Get(entry, "title", "") \o " " \o EntrySummary(entry)

\* title=title.strip() and summary=summary[:300].strip()
EntryStored(entry) ==
    [title |-> strip(Get(entry, "title", "")), summary |-> strip(Prefix(EntrySummary(entry), 300))]

\* datetime.now(timezone.utc) of the run
Now == <<2026, 11, 2, 12, 0, 0>>

\* the days parameter of run_scan (its default)
Days == 7

Recent == <<2026, 10, 30, 9, 30, 0>>
Old    == <<2026, 10, 1, 9, 30, 0>>
BadTime == <<2026, 13, 1, 0, 0, 0>>

\* the entries a feed or a Google News query may deliver
\* a summary of more than 300 characters: the event keeps its first 300
LongSummary ==
    "The regional transit authority said on Monday that it had paused the rollout of its "
    \o "scheduling assistant after riders reported timetable mistakes across several suburban lines. "
    \o "Officials said the vendor had been asked for a written report and that paper timetables would be "
    \o "posted at every station during this week."

FeedEntries == <<
    [title |-> "AI chatbot sued for giving wrong medical advice",
     link |-> "https://news.example/a1", published_parsed |-> Recent],
    [title |-> "AI chatbot sued over wrong medical advice given to patient",
     description |-> "<p>A patient says the <b>chatbot</b> hallucinated a dosage.</p>",
     link |-> "https://news.example/a2", published_parsed |-> Recent],
    [title |-> "Company reports 3x productivity gain from AI adoption",
     link |-> "https://news.example/a3"],
    [summary |-> "", published_parsed |-> Now],
    [title |-> "Medical advice given to patient", summary |-> "Wrong dose.",
     link |-> "https://news.example/a5", published_parsed |-> BadTime],
    [title |-> " Fatal AI error at hospital bank", summary |-> "Regulators investigate. ",
     published_parsed |-> None, updated_parsed |-> Recent],
    [title |-> "AI bias lawsuit hits bank", published_parsed |-> Recent],
    [title |-> "AI bias lawsuit against lender", published_parsed |-> Recent],
    [title |-> " ??? ", link |-> "https://news.example/a9"],
    [title |-> "AI tool failure hits hospital", published_parsed |-> Old],
    [title |-> "Scheduling error disrupts trains",
     summary |-> LongSummary \o " Services resumed on Tuesday.",
     link |-> "https://news.example/a11", published_parsed |-> Recent] >>

\* the incidents the incident API may deliver (<<>> is an incident without fields)
Incidents == <<
    [incident_id |-> 101, title |-> "Chatbot hallucinated a refund policy",
     description |-> "Customer service chatbot gave incorrect information; airline sued.",
     date |-> "2024-02-14"],
    <<>>,
    [incident_id |-> 103, title |-> "Scheduling error disrupts trains",
     description |-> LongSummary \o " Two deaths are linked to the disruption."
        \o " Dispatchers had relied on unverified output, and years of deskilling"
        \o " and vendor lock-in left no fallback.",
     date |-> "2026-10-30T06:15:00.000Z"],
    [incident_id |-> 104, title |-> "???", description |-> "Details withheld."] >>

\* an incident whose description is the JSON null: incident.get("description", "")
\* is None and desc[:300] raises TypeError.  The keys of an incident whose
\* value is null are listed in its field "null".
NullDescriptionIncident ==
    [incident_id |-> 102, title |-> "Robot arm injured a worker", null |-> {"description"}]

IsNull(incident, key) == "null" \in DOMAIN incident /\ key \in incident["null"]

\* f"{incident.get('incident_id', '')}": the id is a number when present
IncidentId(incident) ==
    IF "incident_id" \in DOMAIN incident THEN str(incident.incident_id) ELSE ""

IncidentTitle(incident) == Get(incident, "title", "Untitled Incident")

IncidentCombined(incident) ==
    IncidentTitle(incident) \o " " \o Get(incident, "description", "")

\* the combined texts the scanners classify, and the titles of their events
CombinedTexts ==
    {EntryCombined(FeedEntries[i]) : i \in DOMAIN FeedEntries}
        \cup {IncidentCombined(Incidents[i]) : i \in DOMAIN Incidents}

\* the texts the classifiers are applied to: the combined texts and the empty text
Texts == CombinedTexts \cup {""}

EventTitles ==
    {strip(Get(FeedEntries[i], "title", "")) : i \in DOMAIN FeedEntries}
        \cup {IncidentTitle(Incidents[i]) : i \in DOMAIN Incidents}

VARIABLES
    pc,          \* the stage of the run: idle, rss, news, incident, dedup, aggregate, done
    idx,         \* the index of the feed or query that is fetched next
    fetches,     \* the sources the run has fetched so far, in order
    outcome,     \* how the last fetch ended: "ok", "raised" (the request),
                 \* "raised_in_loop" (an item of the response), or "none"
    all_events,  \* all_events of run_scan
    unique,      \* unique of run_scan
    result,      \* what the run returned
    memo,        \* the text functions, tabulated on the texts of the model
    invocations  \* the local variables of each of the concurrent calls of run_scan

vars == <<pc, idx, fetches, outcome, all_events, unique, result, memo, invocations>>

\* The classifiers, the keyword searches and the title word sets are functions
\* of the text alone, the combined text and the stored title and summary of
\* an entry functions of the entry alone; memo holds their values on the
\* texts and the entries of the model, computed in the initial state and
\* never changed.

\* the event is appended as constructed, to be classified in a later stage
classify_event_later(event, combined) == event

\* the events of Google News are classified on the empty text
classify_event_unless_news(event, combined) ==
    Let(IF event.source = "Google News" THEN "" ELSE combined, LAMBDA text :
        [event EXCEPT !.sira_layers = memo.classify_sira_layers[text],
                      !.sira_metrics = memo.classify_sira_metrics[text],
                      !.severity = memo.estimate_severity[text],
                      !.industry = memo.detect_industry[text]])

\* the audit angle is generated first, from the event as constructed
classify_event_angle_first(event, combined) ==
    [event EXCEPT !.medha_audit_angle = generate_audit_angle(event),
                  !.sira_layers = memo.classify_sira_layers[combined],
                  !.sira_metrics = memo.classify_sira_metrics[combined],
                  !.severity = memo.estimate_severity[combined],
                  !.industry = memo.detect_industry[combined]]

\* _classify_event: the classification fields assigned to the event
_classify_event(event, combined) ==
    Let([event EXCEPT !.sira_layers = memo.classify_sira_layers[combined],
                      !.sira_metrics = memo.classify_sira_metrics[combined],
                      !.severity = memo.estimate_severity[combined],
                      !.industry = memo.detect_industry[combined]],
        LAMBDA e1 : [e1 EXCEPT !.medha_audit_angle = generate_audit_angle(e1)])

\* AIDisasterEvent(title=..., source=..., url=..., published=..., summary=...)
AIDisasterEvent(title, source, url, published, summary) ==
    [title |-> title, source |-> source, url |-> url, published |-> published,
     summary |-> summary, sira_layers |-> <<>>, sira_metrics |-> <<>>,
     severity |-> "Medium", industry |-> "Unknown", medha_audit_angle |-> ""]

-----------------------------------------------------------------------------
(* Source scanners                                                         *)

HTTP_TIMEOUT == 8

\* the names of the feeds dict of scan_rss_feeds, in order
feeds == <<"AI Incident Database", "TechCrunch AI", "Ars Technica AI", "The Register AI",
           "MIT Tech Review", "Wired AI", "The Verge AI", "Reuters Tech", "BBC Tech">>

\* the queries of scan_google_news, in order
queries == <<"AI failure disaster 2026", "AI lawsuit sued bias", "AI chatbot wrong misleading",
             "AI workers replaced rehire", "AI hallucination company error",
             "AI data breach leak", "AI patient harm healthcare",
             "autonomous vehicle crash recall">>

disaster_keywords == <<
    "fail", "error", "wrong", "lawsuit", "sued", "ban", "recall", "crash", "bias", "discriminat",
    "hallucin", "leak", "breach", "harm", "death", "kill", "injur", "fired", "laid\\s*off",
    "replac", "mislead", "scam", "fraud", "fake", "deepfake", "backtrack", "revers", "abandon",
    "shut\\s*down", "apologize", "apologise", "controversy", "backlash", "outrage", "investigate",
    "probe", "fine[ds]?\\b", "penalt", "violat", "inaccura", "fabricat", "misinform", "dangerous",
    "unsafe", "risk", "vulnerab", "exploit" >>

ai_keywords ==
    "\\b(ai|artificial\\s+intelligence|machine\\s+learn|deep\\s+learn|"
    \o "chatbot|llm|gpt|gemini|claude|copilot|openai|anthropic|"
    \o "automat(ed|ion)|algorithm|neural\\s+net|generat(ive|or)|"
    \o "self.driv|autonom(ous|y)|robot(ic)?)\\b"

\* ai_keywords.search(text); re.IGNORECASE, and the pattern is in lower case
ai_keywords_search(text) == re_search(ai_keywords, lower(text))

\* disaster_pattern.search(text): the keywords joined by "|", re.IGNORECASE
disaster_pattern_search(text) ==
    Let(lower(text), LAMBDA text_lower : FirstMatch(disaster_keywords, text_lower, 1) # 0)

\* the try block of scan_rss_feeds that computes pub_dt
RssPubDate(entry, now) ==
    IF Has(entry, "published_parsed")
    THEN (IF ValidTime(entry.published_parsed) THEN entry.published_parsed ELSE now)
    ELSE IF Has(entry, "updated_parsed")
    THEN (IF ValidTime(entry.updated_parsed) THEN entry.updated_parsed ELSE now)
    ELSE now

\* the try block of scan_google_news that computes pub_dt
NewsPubDate(entry, now) ==
    IF Has(entry, "published_parsed")
    THEN (IF ValidTime(entry.published_parsed) THEN entry.published_parsed ELSE now)
    ELSE now

\* the event built from a feed entry
EntryEvent(entry, source_name, pub_dt) ==
    _classify_event(
        AIDisasterEvent(memo.EntryStored[entry].title, source_name, Get(entry, "link", ""),
                        strftime(pub_dt), memo.EntryStored[entry].summary),
        memo.EntryCombined[entry])

\* body of the loop of scan_rss_feeds over feed.entries[:15], for one feed
RECURSIVE RssEvents(_, _, _, _)
RssEvents(entries, source_name, now, days) ==
    IF entries = <<>> THEN <<>>
    ELSE LET entry    == Head(entries)
             combined == memo.EntryCombined[entry]
             pub_dt   == RssPubDate(entry, now)
             keep     == /\ memo.ai_keywords_search[combined]
                         /\ memo.disaster_pattern_search[combined]
                         /\ NotBeforeCutoff(pub_dt, now, days)
         IN  (IF keep THEN <<EntryEvent(entry, source_name, pub_dt)>> ELSE <<>>)
                \o RssEvents(Tail(entries), source_name, now, days)

\* body of the loop of scan_google_news over feed.entries[:10], for one query
RECURSIVE NewsEvents(_, _, _)
NewsEvents(entries, now, days) ==
    IF entries = <<>> THEN <<>>
    ELSE LET entry  == Head(entries)
             pub_dt == NewsPubDate(entry, now)
         IN  (IF NotBeforeCutoff(pub_dt, now, days)
              THEN <<EntryEvent(entry, "Google News", pub_dt)>> ELSE <<>>)
                \o NewsEvents(Tail(entries), now, days)

\* the event built from one incident of the incident API
IncidentEvent(incident) ==
    LET title == IncidentTitle(incident)
        desc  == Get(incident, "description", "")
    IN  _classify_event(
            AIDisasterEvent(title, "AI Incident Database",
                            "https://incidentdatabase.ai/cite/" \o IncidentId(incident),
                            Get(incident, "date", "Unknown"), Prefix(desc, 300)),
            IncidentCombined(incident))

\* desc[:300] raises on an incident whose description is null
IncidentRaises(incident) == IsNull(incident, "description")

\* the first incident of the list the loop raises on, Len + 1 when there is none
FirstRaising(incidents) ==
    Min({i \in DOMAIN incidents : IncidentRaises(incidents[i])} \cup {Len(incidents) + 1})

\* the loop of scan_ai_incident_database over data.get("incidents", []): the
\* events appended before the loop ends or raises; "except: pass" and
\* "return events" keep them
IncidentEvents(incidents) ==
    [i \in 1..(FirstRaising(incidents) - 1) |-> IncidentEvent(incidents[i])]

-----------------------------------------------------------------------------
(* Deduplication                                                           *)

\* re.sub(r"[^a-z0-9\s]", "", s): only lower-case letters, digits and
\* whitespace are kept (by halves, as lower)
RECURSIVE KeepAlnumSpace(_)
KeepAlnumSpace(s) ==
    IF Len(s) = 0 THEN ""
    ELSE IF Len(s) = 1
         THEN (IF IndexOf(s, LowerChars \o DigitChars) # 0 \/ IsSpace(s) THEN s ELSE "")
    ELSE LET h == Len(s) \div 2
         IN  KeepAlnumSpace(SubSeq(s, 1, h)) \o KeepAlnumSpace(SubSeq(s, h + 1, Len(s)))

normalize(title) == strip(KeepAlnumSpace(lower(title)))

\* set(normalize(title).split())
TitleWordSet(title) == SplitWords(normalize(title))

\* overlap = len(words_a & words_b) / min(len(words_a), len(words_b)) and
\* overlap > 0.6: the quotient of two small integers is the double nearest
\* to the exact ratio and 0.6 is the double nearest to 3/5, so the float
\* comparison is the exact 5 * |words_a & words_b| > 3 * min
\* is_similar with "overlap >= 0.6"
is_similar_at_least(a, b) ==
    LET words_a == memo.TitleWordSet[a]
        words_b == memo.TitleWordSet[b]
        smaller == IF Cardinality(words_a) < Cardinality(words_b)
                   THEN Cardinality(words_a) ELSE Cardinality(words_b)
    IN  IF words_a = {} \/ words_b = {} THEN FALSE
        ELSE 5 * Cardinality(words_a \cap words_b) >= 3 * smaller

\* is_similar without "if not words_a or not words_b: return False", two
\* titles without words having the ratio of equal word sets
is_similar_wordless(a, b) ==
    LET words_a == memo.TitleWordSet[a]
        words_b == memo.TitleWordSet[b]
        smaller == IF Cardinality(words_a) < Cardinality(words_b)
                   THEN Cardinality(words_a) ELSE Cardinality(words_b)
    IN  IF smaller = 0 THEN words_a = words_b
        ELSE 5 * Cardinality(words_a \cap words_b) > 3 * smaller

is_similar(a, b) ==
    LET words_a == memo.TitleWordSet[a]
        words_b == memo.TitleWordSet[b]
        smaller == IF Cardinality(words_a) < Cardinality(words_b)
                   THEN Cardinality(words_a) ELSE Cardinality(words_b)
    IN  IF words_a = {} \/ words_b = {} THEN FALSE
        ELSE 5 * Cardinality(words_a \cap words_b) > 3 * smaller

\* the loop of deduplicate with seen_titles.append(event.title) moved out of
\* the "if": the title of a removed event is seen, too
RECURSIVE DedupLoopAllSeen(_, _, _, _)
DedupLoopAllSeen(events, i, seen_titles, kept) ==
    IF i > Len(events) THEN [seen_titles |-> seen_titles, unique |-> kept]
    ELSE DedupLoopAllSeen(events, i + 1, Append(seen_titles, events[i].title),
            IF ~ \E k \in DOMAIN seen_titles : is_similar(events[i].title, seen_titles[k])
            THEN Append(kept, events[i]) ELSE kept)

\* the loop of deduplicate with seen_titles = [event.title] in place of
\* seen_titles.append(event.title): only the title kept last is compared with
RECURSIVE DedupLoopLastSeen(_, _, _, _)
DedupLoopLastSeen(events, i, seen_titles, kept) ==
    IF i > Len(events) THEN [seen_titles |-> seen_titles, unique |-> kept]
    ELSE IF ~ \E k \in DOMAIN seen_titles : is_similar(events[i].title, seen_titles[k])
         THEN DedupLoopLastSeen(events, i + 1, <<events[i].title>>, Append(kept, events[i]))
         ELSE DedupLoopLastSeen(events, i + 1, seen_titles, kept)

\* the loop of deduplicate from events[i] on
RECURSIVE DedupLoop(_, _, _, _)
DedupLoop(events, i, seen_titles, kept) ==
    IF i > Len(events) THEN [seen_titles |-> seen_titles, unique |-> kept]
    ELSE IF ~ \E k \in DOMAIN seen_titles : is_similar(events[i].title, seen_titles[k])
         THEN DedupLoop(events, i + 1, Append(seen_titles, events[i].title),
                        Append(kept, events[i]))
         ELSE DedupLoop(events, i + 1, seen_titles, kept)

Reversed(list) == [i \in DOMAIN list |-> list[Len(list) + 1 - i]]

\* deduplicate comparing an event with the event just before it only
deduplicate_adjacent(events) ==
    Select(events, {j \in DOMAIN events :
                        j = 1 \/ ~ is_similar(events[j].title, events[j - 1].title)})

\* deduplicate with unique.insert(0, event) in place of unique.append(event)
deduplicate_newest_first(events) == Reversed(DedupLoop(events, 1, <<>>, <<>>).unique)

\* deduplicate keeping the last event of a cluster instead of the first
deduplicate_keep_last(events) == Reversed(DedupLoop(Reversed(events), 1, <<>>, <<>>).unique)

deduplicate(events) == DedupLoop(events, 1, <<>>, <<>>).unique

-----------------------------------------------------------------------------
(* Aggregation.  A dict is a sequence of [key, value] items in insertion   *)
(* order.                                                                  *)

Keys(d) == [i \in DOMAIN d |-> d[i].key]

Values(d) == [i \in DOMAIN d |-> d[i].value]

\* d.get(key, default)
DictGet(d, key, default) ==
    IF \E i \in DOMAIN d : d[i].key = key
    THEN d[CHOOSE i \in DOMAIN d : d[i].key = key].value
    ELSE default

\* d[key] = value: an existing key keeps its place, a new key is added last
DictSet(d, key, value) ==
    IF \E i \in DOMAIN d : d[i].key = key
    THEN [i \in DOMAIN d |-> IF d[i].key = key THEN [key |-> key, value |-> value] ELSE d[i]]
    ELSE Append(d, [key |-> key, value |-> value])

\* d[key] = 1 in place of d[key] = d.get(key, 0) + 1
CountAssign(d, key) == DictSet(d, key, 1)

\* d[key] = d.get(key, 0) + 1
Count(d, key) == DictSet(d, key, DictGet(d, key, 0) + 1)

\* for key in keys: d[key] = d.get(key, 0) + 1
RECURSIVE CountAll(_, _)
CountAll(d, keys) ==
    IF keys = <<>> THEN d
    ELSE Let(Count(d, Head(keys)), LAMBDA counted : CountAll(counted, Tail(keys)))

RECURSIVE Sum(_)
Sum(list) == IF list = <<>> THEN 0 ELSE Head(list) + Sum(Tail(list))

\* list.sort / sorted on [rank, item] pairs: a stable sort by ascending rank
\* (insertion after the last element whose rank is not greater)
RECURSIVE SortedByRank(_)
SortedByRank(pairs) ==
    IF pairs = <<>> THEN <<>>
    ELSE Let(SortedByRank(SubSeq(pairs, 1, Len(pairs) - 1)), LAMBDA rest :
            LET x == pairs[Len(pairs)]
                n == Cardinality({i \in DOMAIN rest : rest[i].rank <= x.rank})
            IN  SubSeq(rest, 1, n) \o <<x>> \o SubSeq(rest, n + 1, Len(rest)))

\* sorted(d.items(), key=lambda x: x[1]): the minus sign is missing
SortedByCountAscending(d) ==
    Let(SortedByRank([i \in DOMAIN d |-> [rank |-> d[i].value, item |-> d[i]]]),
        LAMBDA sorted : [i \in DOMAIN sorted |-> sorted[i].item])

\* sorted(d.items(), key=lambda x: -x[1])
SortedByCount(d) ==
    Let(SortedByRank([i \in DOMAIN d |-> [rank |-> 0 - d[i].value, item |-> d[i]]]),
        LAMBDA sorted : [i \in DOMAIN sorted |-> sorted[i].item])

sev_order == << [key |-> "Critical", value |-> 0], [key |-> "High", value |-> 1],
                [key |-> "Medium", value |-> 2], [key |-> "Low", value |-> 3] >>

\* events.sort(key=..., reverse=True): Low first
SortedBySeverityDescending(events) ==
    Let(SortedByRank([i \in DOMAIN events |->
            [rank |-> 0 - DictGet(sev_order, events[i].severity, 4), item |-> events[i]]]),
        LAMBDA sorted : [i \in DOMAIN sorted |-> sorted[i].item])

\* events.sort(key=lambda e: sev_order.get(e["severity"], 4))
SortedBySeverity(events) ==
    Let(SortedByRank([i \in DOMAIN events |->
            [rank |-> DictGet(sev_order, events[i].severity, 4), item |-> events[i]]]),
        LAMBDA sorted : [i \in DOMAIN sorted |-> sorted[i].item])

\* {"critical": 0, "high": 0, "medium": 0, "low": 0}: keys in lower case
SeveritySeedLowerCase ==
    << [key |-> "critical", value |-> 0], [key |-> "high", value |-> 0],
       [key |-> "medium", value |-> 0], [key |-> "low", value |-> 0] >>

\* {"Critical": 0, "High": 0, "Medium": 0, "Low": 0}
SeveritySeed ==
    << [key |-> "Critical", value |-> 0], [key |-> "High", value |-> 0],
       [key |-> "Medium", value |-> 0], [key |-> "Low", value |-> 0] >>

\* {f"L{i}": 0 for i in range(1, 7)}
LayerSeedSix == [i \in 1..6 |-> [key |-> "L" \o str(i), value |-> 0]]

\* {f"L{i}": 0 for i in range(1, 8)}
LayerSeed == [i \in 1..7 |-> [key |-> "L" \o str(i), value |-> 0]]

\* the counting loop "for e in events" of run_scan and of generate_dashboard
RECURSIVE CountEvents(_, _)
CountEvents(events, counts) ==
    IF events = <<>> THEN counts
    ELSE Let([severity_counts |-> Count(counts.severity_counts, events[1].severity),
              layer_counts    |-> CountAll(counts.layer_counts, events[1].sira_layers),
              industry_counts |-> Count(counts.industry_counts, events[1].industry),
              metric_counts   |-> CountAll(counts.metric_counts, events[1].sira_metrics)],
             LAMBDA counted : CountEvents(Tail(events), counted))

InitialCounts ==
    [severity_counts |-> SeveritySeed, layer_counts |-> LayerSeed,
     industry_counts |-> <<>>, metric_counts |-> <<>>]

\* run_scan from "events = [asdict(e) for e in unique]" to its return value
Aggregate(unique_events, days) ==
    Let(CountEvents(unique_events, InitialCounts), LAMBDA counts :
        Let(SortedBySeverity(unique_events), LAMBDA events :
            [by |-> "run_scan",
             days |-> days,
             total |-> Len(events),
             severity_counts |-> counts.severity_counts,
             layer_counts |-> counts.layer_counts,
             industry_counts |-> SortedByCount(counts.industry_counts),
             metric_counts |-> SortedByCount(counts.metric_counts),
             events |-> events]))

\* max(d.values()) if any(d.values()) else 1
MaxValueOr1(d) ==
    IF \E i \in DOMAIN d : d[i].value # 0 THEN Max({d[i].value : i \in DOMAIN d}) ELSE 1

\* generate_dashboard without events.sort: the events in the order given
DashboardStatsUnsorted(event_dicts, days) ==
    Let(CountEvents(event_dicts, InitialCounts), LAMBDA counts :
        Let(SortedByCount(counts.industry_counts), LAMBDA sorted_industries :
            Let(SortedByCount(counts.metric_counts), LAMBDA sorted_metrics :
                [by |-> "generate_dashboard",
                 days |-> days,
                 total |-> Len(event_dicts),
                 severity_counts |-> counts.severity_counts,
                 layer_counts |-> counts.layer_counts,
                 industry_counts |-> sorted_industries,
                 metric_counts |-> sorted_metrics,
                 events |-> event_dicts,
                 max_layer |-> MaxValueOr1(counts.layer_counts),
                 max_ind |-> IF sorted_industries # <<>> THEN sorted_industries[1].value ELSE 1,
                 max_met |-> IF sorted_metrics # <<>> THEN sorted_metrics[1].value ELSE 1])))

\* generate_dashboard up to the bar denominators: the statistics it renders
DashboardStats(event_dicts, days) ==
    Let(CountEvents(event_dicts, InitialCounts), LAMBDA counts :
        Let(SortedByCount(counts.industry_counts), LAMBDA sorted_industries :
            Let(SortedByCount(counts.metric_counts), LAMBDA sorted_metrics :
                [by |-> "generate_dashboard",
                 days |-> days,
                 total |-> Len(event_dicts),
                 severity_counts |-> counts.severity_counts,
                 layer_counts |-> counts.layer_counts,
                 industry_counts |-> sorted_industries,
                 metric_counts |-> sorted_metrics,
                 events |-> SortedBySeverity(event_dicts),
                 max_layer |-> MaxValueOr1(counts.layer_counts),
                 max_ind |-> IF sorted_industries # <<>> THEN sorted_industries[1].value ELSE 1,
                 max_met |-> IF sorted_metrics # <<>> THEN sorted_metrics[1].value ELSE 1])))

-----------------------------------------------------------------------------
(* One scan request after the other: fetch every feed, every Google News   *)
(* query and the incident API, then deduplicate, then aggregate.           *)

\* bounds of the model: the first NumFeeds feeds and the first NumQueries
\* queries are fetched, a response holds at most MaxEntries entries, and a
\* run collects at most MaxEvents events
NumFeeds == 2
NumQueries == 1
MaxEntries == 1
MaxEvents == 3

NoResult == [by |-> "nobody"]

\* the runs of at most MaxEntries consecutive items of a list
Runs(list) ==
    {SubSeq(list, w[1], w[1] + w[2] - 1) :
        w \in {w \in (DOMAIN list) \X (0..MaxEntries) : w[1] + w[2] - 1 <= Len(list)}}

\* the responses a feed or a query can deliver: runs of FeedEntries
EntryLists == Runs(FeedEntries)

\* the lists of incidents the incident API can deliver
IncidentLists ==
    Runs(Incidents)
        \cup {head \o <<NullDescriptionIncident>> \o rest :
                head \in Runs(Incidents), rest \in {<<>>, <<Incidents[1]>>}}

\* the concurrent calls of run_scan, and the number of them
NumScans == 2
Scans == 1..NumScans

\* a call that has not started: no local variable holds anything
IdleInvocation ==
    [pc |-> "idle", all_events |-> <<>>, i |-> 1, seen_titles |-> <<>>, unique |-> <<>>,
     result |-> NoResult]

Memo ==
    [classify_sira_layers    |-> [text \in Texts |-> classify_sira_layers(text)],
     classify_sira_metrics   |-> [text \in Texts |-> classify_sira_metrics(text)],
     estimate_severity       |-> [text \in Texts |-> estimate_severity(text)],
     detect_industry         |-> [text \in Texts |-> detect_industry(text)],
     ai_keywords_search      |-> [text \in Texts |-> ai_keywords_search(text)],
     disaster_pattern_search |-> [text \in Texts |-> disaster_pattern_search(text)],
     TitleWordSet            |-> [title \in EventTitles |-> TitleWordSet(title)],
     EntryCombined           |-> [entry \in Range(FeedEntries) |-> EntryCombined(entry)],
     EntryStored             |-> [entry \in Range(FeedEntries) |-> EntryStored(entry)]]

Init ==
    /\ pc = "idle"
    /\ idx = 1
    /\ fetches = <<>>
    /\ outcome = "none"
    /\ all_events = <<>>
    /\ unique = <<>>
    /\ result = NoResult
    /\ memo = Memo
    /\ invocations = [s \in Scans |-> IdleInvocation]

\* do_GET calls run_scan; every run starts from empty lists
StartScan ==
    /\ pc \in {"idle", "done"}
    /\ pc' = "rss"
    /\ idx' = 1
    /\ fetches' = <<>>
    /\ outcome' = "none"
    /\ all_events' = <<>>
    /\ unique' = <<>>
    /\ result' = NoResult
    /\ UNCHANGED <<memo, invocations>>

\* a failed fetch ends the fetching of the run
AdvanceUnlessRaised(count, next_stage) ==
    IF outcome' # "ok" THEN pc' = "dedup" /\ idx' = 1
    ELSE IF idx < count
    THEN pc' = pc /\ idx' = idx + 1
    ELSE pc' = next_stage /\ idx' = 1

\* a source whose request raised is requested again
AdvanceOrRetry(count, next_stage) ==
    IF outcome' = "raised" /\ Len(fetches) < 2 * count THEN pc' = pc /\ idx' = idx
    ELSE IF idx < count
    THEN pc' = pc /\ idx' = idx + 1
    ELSE pc' = next_stage /\ idx' = 1

\* the loop over the sources of a stage moves on, or the next stage starts
Advance(count, next_stage) ==
    IF idx < count
    THEN pc' = pc /\ idx' = idx + 1
    ELSE pc' = next_stage /\ idx' = 1

\* scan_rss_feeds, one feed: the request or the parsing raises, "except: pass"
RssFetchFails ==
    /\ pc = "rss"
    /\ fetches' = Append(fetches, feeds[idx])
    /\ outcome' = "raised"
    /\ Advance(NumFeeds, "news")
    /\ UNCHANGED <<all_events, unique, result, memo, invocations>>

\* scan_rss_feeds, one feed: the entries of the response are filtered and classified
RssFetch ==
    /\ pc = "rss"
    /\ \E entries \in EntryLists :
          LET events == RssEvents(SubSeq(entries, 1, IF Len(entries) < 15 THEN Len(entries) ELSE 15),
                                  feeds[idx], Now, Days)
          IN  /\ Len(all_events) + Len(events) <= MaxEvents
              /\ all_events' = all_events \o events
    /\ fetches' = Append(fetches, feeds[idx])
    /\ outcome' = "ok"
    /\ Advance(NumFeeds, "news")
    /\ UNCHANGED <<unique, result, memo, invocations>>

\* scan_google_news, one query: the request or the parsing raises
NewsFetchFails ==
    /\ pc = "news"
    /\ fetches' = Append(fetches, queries[idx])
    /\ outcome' = "raised"
    /\ Advance(NumQueries, "incident")
    /\ UNCHANGED <<all_events, unique, result, memo, invocations>>

\* scan_google_news, one query
NewsFetch ==
    /\ pc = "news"
    /\ \E entries \in EntryLists :
          LET events == NewsEvents(SubSeq(entries, 1, IF Len(entries) < 10 THEN Len(entries) ELSE 10),
                                   Now, Days)
          IN  /\ Len(all_events) + Len(events) <= MaxEvents
              /\ all_events' = all_events \o events
    /\ fetches' = Append(fetches, queries[idx])
    /\ outcome' = "ok"
    /\ Advance(NumQueries, "incident")
    /\ UNCHANGED <<unique, result, memo, invocations>>

\* scan_ai_incident_database: the request raises, or the status is not 200
IncidentFetchFails ==
    /\ pc = "incident"
    /\ fetches' = Append(fetches, "incidents")
    /\ outcome' = "raised"
    /\ pc' = "dedup"
    /\ UNCHANGED <<idx, all_events, unique, result, memo, invocations>>

\* scan_ai_incident_database: status 200; an incident of the response may raise
IncidentFetch ==
    /\ pc = "incident"
    /\ \E incidents \in IncidentLists :
          LET events == IncidentEvents(incidents)
          IN  /\ Len(all_events) + Len(events) <= MaxEvents
              /\ all_events' = all_events \o events
              /\ outcome' = IF FirstRaising(incidents) <= Len(incidents)
                            THEN "raised_in_loop" ELSE "ok"
    /\ fetches' = Append(fetches, "incidents")
    /\ pc' = "dedup"
    /\ UNCHANGED <<idx, unique, result, memo, invocations>>

\* unique = deduplicate(all_events)
Deduplicate ==
    /\ pc = "dedup"
    /\ unique' = deduplicate(all_events)
    /\ pc' = "aggregate"
    /\ outcome' = "none"
    /\ UNCHANGED <<idx, fetches, all_events, result, memo, invocations>>

\* the rest of lib_scanner.run_scan
RunScanAggregate ==
    /\ pc = "aggregate"
    /\ result' = Aggregate(unique, Days)
    /\ pc' = "done"
    /\ UNCHANGED <<idx, fetches, outcome, all_events, unique, memo, invocations>>

\* the dashboard: generate_dashboard on the events its run_scan returned
GenerateDashboard ==
    /\ pc = "aggregate"
    /\ result' = DashboardStats(unique, Days)
    /\ pc' = "done"
    /\ UNCHANGED <<idx, fetches, outcome, all_events, unique, memo, invocations>>

Next ==
    \/ StartScan
    \/ RssFetchFails
    \/ RssFetch
    \/ NewsFetchFails
    \/ NewsFetch
    \/ IncidentFetchFails
    \/ IncidentFetch
    \/ Deduplicate
    \/ RunScanAggregate
    \/ GenerateDashboard

Spec == Init /\ [][Next]_vars

-----------------------------------------------------------------------------
(* Concurrent calls of run_scan.  Each call has its own all_events, and    *)
(* its call of deduplicate its own seen_titles and unique; the calls share *)
(* the module-level catalogs, which no statement assigns to.  A step is    *)
(* the fetching of a call, one iteration of its deduplicate loop, the end  *)
(* of that loop, or its aggregation.                                       *)

\* the documents the scanners of a call can deliver: the events of the first
\* entries of FeedEntries
FetchedLists == {NewsEvents(SubSeq(FeedEntries, 1, n), Now, Days) : n \in 0..MaxEvents}

\* seen_titles as a module-level list: the titles every call has appended
RECURSIVE seen_titles_of_all(_)
seen_titles_of_all(s) ==
    IF s = 0 THEN <<>> ELSE seen_titles_of_all(s - 1) \o invocations[s].seen_titles

seen_titles_shared(s) == seen_titles_of_all(NumScans)

\* seen_titles as the loop of the call s reads it
seen_titles_of(s) == invocations[s].seen_titles

\* all_events = [] ... extend(scan_...), then deduplicate(all_events) starts
\* with seen_titles = [] and unique = []
InvocationFetch(s) ==
    /\ invocations[s].pc \in {"idle", "done"}
    /\ \E events \in FetchedLists :
          invocations' = [invocations EXCEPT ![s] =
              [pc |-> "dedup", all_events |-> events, i |-> 1, seen_titles |-> <<>>,
               unique |-> <<>>, result |-> NoResult]]
    /\ UNCHANGED <<pc, idx, fetches, outcome, all_events, unique, result, memo>>

\* one iteration of "for event in events" of deduplicate
InvocationDedupStep(s) ==
    /\ invocations[s].pc = "dedup"
    /\ invocations[s].i <= Len(invocations[s].all_events)
    /\ LET event == invocations[s].all_events[invocations[s].i]
           seen  == seen_titles_of(s)
       IN  invocations' = [invocations EXCEPT ![s] =
               IF ~ \E k \in DOMAIN seen : is_similar(event.title, seen[k])
               THEN [@ EXCEPT !.i = @ + 1,
                              !.seen_titles = Append(@, event.title),
                              !.unique = Append(@, event)]
               ELSE [@ EXCEPT !.i = @ + 1]]
    /\ UNCHANGED <<pc, idx, fetches, outcome, all_events, unique, result, memo>>

\* the loop is over: return unique
InvocationDedupReturn(s) ==
    /\ invocations[s].pc = "dedup"
    /\ invocations[s].i > Len(invocations[s].all_events)
    /\ invocations' = [invocations EXCEPT ![s].pc = "aggregate"]
    /\ UNCHANGED <<pc, idx, fetches, outcome, all_events, unique, result, memo>>

\* the rest of run_scan
InvocationAggregate(s) ==
    /\ invocations[s].pc = "aggregate"
    /\ invocations' = [invocations EXCEPT ![s].pc = "done",
                                          ![s].result = Aggregate(invocations[s].unique, Days)]
    /\ UNCHANGED <<pc, idx, fetches, outcome, all_events, unique, result, memo>>

NextConcurrent ==
    \E s \in Scans :
        \/ InvocationFetch(s)
        \/ InvocationDedupStep(s)
        \/ InvocationDedupReturn(s)
        \/ InvocationAggregate(s)

SpecConcurrent == Init /\ [][NextConcurrent]_vars

-----------------------------------------------------------------------------
(* Properties of the classifiers.  The expected values are stated from the *)
(* pattern lists with \E, not with the loops of the classifiers.           *)

\* some pattern of the list matches the lower-cased text
Matches(patterns, text) ==
    \E i \in DOMAIN patterns : re_search(patterns[i], lower(text))

\* the combined text an event was classified on, found by its title and its
\* url (no two of FeedEntries and Incidents have both in common)
SourceTexts ==
    {[title |-> strip(Get(FeedEntries[k], "title", "")), url |-> Get(FeedEntries[k], "link", ""),
      text |-> EntryCombined(FeedEntries[k])] : k \in DOMAIN FeedEntries}
    \cup {[title |-> IncidentTitle(Incidents[k]),
           url |-> "https://incidentdatabase.ai/cite/" \o IncidentId(Incidents[k]),
           text |-> IncidentCombined(Incidents[k])] : k \in DOMAIN Incidents}

TextOf(event) ==
    (CHOOSE r \in SourceTexts : r.title = event.title /\ r.url = event.url).text

LayerCodes == {"L1", "L2", "L3", "L4", "L5", "L6", "L7"}
MetricCodes == {"MY", "CRR", "BAI", "HR", "HHI", "MG"}

\* the texts on which no layer pattern and no metric pattern matches
SignalFree ==
    {text \in Texts :
        /\ \A k \in DOMAIN LAYER_SIGNALS : ~ Matches(LAYER_SIGNALS[k].patterns, text)
        /\ \A k \in DOMAIN METRIC_SIGNALS : ~ Matches(METRIC_SIGNALS[k].patterns, text)}

\* C1: for every text, the empty text included, classify_sira_layers returns
\* a non-empty list of layer codes and classify_sira_metrics a non-empty list
\* of metric codes; so every event a scanner has produced has non-empty
\* sira_layers and sira_metrics.
C1_ClassifiersNeverEmpty ==
    /\ "" \in Texts
    /\ \A text \in Texts :
          /\ memo.classify_sira_layers[text] # <<>>
          /\ Range(memo.classify_sira_layers[text]) \subseteq LayerCodes
          /\ memo.classify_sira_metrics[text] # <<>>
          /\ Range(memo.classify_sira_metrics[text]) \subseteq MetricCodes
    /\ \A i \in DOMAIN all_events :
          /\ all_events[i].sira_layers = memo.classify_sira_layers[TextOf(all_events[i])]
          /\ all_events[i].sira_metrics = memo.classify_sira_metrics[TextOf(all_events[i])]
          /\ all_events[i].sira_layers # <<>>
          /\ all_events[i].sira_metrics # <<>>

\* a scanner has produced an event from a text that matches no layer and no
\* metric pattern, and the event carries the defaults
C1_Witness ==
    \E i \in DOMAIN all_events :
        /\ TextOf(all_events[i]) \in SignalFree
        /\ all_events[i].sira_layers = <<"L4">>
        /\ all_events[i].sira_metrics = <<"MG">>

\* which tiers have a matching pattern, for every text
TierMatches ==
    [text \in Texts |->
        [critical |-> Matches(critical_patterns, text),
         high     |-> Matches(high_patterns, text),
         medium   |-> Matches(medium_patterns, text)]]

\* C2: estimate_severity returns exactly one tier: the highest tier (Critical
\* before High before Medium) that has a matching pattern, and Low exactly
\* when no pattern of the three tiers matches; a text matching a Critical and
\* a Medium pattern is Critical.
C2_SeverityIsHighestMatchingTier ==
    /\ \A text \in Texts :
          LET severity == memo.estimate_severity[text]
              m == TierMatches[text]
          IN  /\ severity \in {"Critical", "High", "Medium", "Low"}
              /\ (severity = "Critical") <=> m.critical
              /\ (severity = "High") <=> (~ m.critical /\ m.high)
              /\ (severity = "Medium") <=> (~ m.critical /\ ~ m.high /\ m.medium)
              /\ (severity = "Low") <=> (~ m.critical /\ ~ m.high /\ ~ m.medium)
              /\ (m.critical /\ m.medium) => severity = "Critical"
    /\ \A i \in DOMAIN all_events :
          all_events[i].severity = memo.estimate_severity[TextOf(all_events[i])]

\* an event whose text matches a Critical and a Medium pattern was classified
C2_Witness ==
    \E i \in DOMAIN all_events :
        /\ TierMatches[TextOf(all_events[i])].critical
        /\ TierMatches[TextOf(all_events[i])].medium
        /\ all_events[i].severity = "Critical"

IndustryOrder ==
    <<"Healthcare", "Finance", "Automotive", "Legal", "Education", "Retail", "Media", "Tech",
      "Government", "HR/Recruitment">>

\* the positions, in the catalog, of the industries with a matching pattern
IndustryMatches ==
    [text \in Texts |-> {k \in DOMAIN industries : Matches(industries[k].patterns, text)}]

\* C3: detect_industry returns exactly one industry: for a text that matches
\* patterns of one or more industries, the one declared earliest in the order
\* Healthcare, Finance, Automotive, Legal, Education, Retail, Media, Tech,
\* Government, HR/Recruitment; and General/Cross-Industry exactly when no
\* industry pattern matches.
C3_IndustryIsEarliestMatch ==
    /\ [k \in DOMAIN industries |-> industries[k].label] = IndustryOrder
    /\ \A text \in Texts :
          LET industry == memo.detect_industry[text]
              hits == IndustryMatches[text]
          IN  /\ (industry = "General/Cross-Industry") <=> (hits = {})
              /\ hits # {} =>
                    \E k \in hits : industry = IndustryOrder[k] /\ \A j \in hits : k <= j
    /\ \A i \in DOMAIN all_events :
          all_events[i].industry = memo.detect_industry[TextOf(all_events[i])]

\* an event whose text matches patterns of Healthcare and of Finance was
\* classified, as Healthcare
C3_Witness ==
    \E i \in DOMAIN all_events :
        /\ {1, 2} \subseteq IndustryMatches[TextOf(all_events[i])]
        /\ all_events[i].industry = "Healthcare"

-----------------------------------------------------------------------------
(* Properties of deduplicate.  The overlap ratio of two titles is stated   *)
(* on their word sets; a ratio is compared with 0.6 = 3/5 in integers.     *)

Deduplicated == pc \in {"aggregate", "done"}

Titles(events) == [i \in DOMAIN events |-> events[i].title]

\* |A & B| and min(|A|, |B|) for the word sets A, B of two titles
WordOverlap(a, b) == Cardinality(memo.TitleWordSet[a] \cap memo.TitleWordSet[b])

SmallerWordSet(a, b) ==
    Min({Cardinality(memo.TitleWordSet[a]), Cardinality(memo.TitleWordSet[b])})

\* the ratio is defined and greater than 0.6
RatioExceeds(a, b) ==
    SmallerWordSet(a, b) > 0 /\ 5 * WordOverlap(a, b) > 3 * SmallerWordSet(a, b)

\* the ratio is defined and exactly 0.6
RatioIsThreshold(a, b) ==
    SmallerWordSet(a, b) > 0 /\ 5 * WordOverlap(a, b) = 3 * SmallerWordSet(a, b)

\* C4: deduplicate is idempotent: deduplicate(deduplicate(x)) = deduplicate(x),
\* the same events in the same order, for the list x a run has collected and
\* for the list it has deduplicated.
C4_DeduplicateIdempotent ==
    /\ deduplicate(deduplicate(all_events)) = deduplicate(all_events)
    /\ Deduplicated => unique = deduplicate(all_events) /\ deduplicate(unique) = unique

\* deduplicate has removed an event of a list and has kept two
C4_Witness ==
    /\ Deduplicated
    /\ Len(unique) >= 2
    /\ Len(unique) < Len(all_events)
    /\ deduplicate(unique) = unique

\* C5: the similarity test is strict: of two events whose titles have an
\* overlap ratio of exactly 0.6 both are kept, and with a ratio greater than
\* 0.6 the later event is removed.
C5_StrictThreshold ==
    (Deduplicated /\ Len(all_events) = 2) =>
        /\ RatioIsThreshold(all_events[1].title, all_events[2].title) => unique = all_events
        /\ RatioExceeds(all_events[1].title, all_events[2].title) => unique = <<all_events[1]>>

\* two events whose titles share 3 of their 5 words went through deduplicate
C5_Witness ==
    /\ Deduplicated
    /\ Titles(all_events) = <<"AI bias lawsuit hits bank", "AI bias lawsuit against lender">>
    /\ memo.TitleWordSet[all_events[1].title] = {"ai", "bias", "lawsuit", "hits", "bank"}
    /\ memo.TitleWordSet[all_events[2].title] = {"ai", "bias", "lawsuit", "against", "lender"}
    /\ RatioIsThreshold(all_events[1].title, all_events[2].title)
    /\ unique = all_events

\* C6, as claimed: an event is removed exactly when the overlap ratio of its
\* title with the title of some event processed earlier in the same call is
\* greater than 0.6.
C6_RemovedIffSimilarToEarlierEvent ==
    Deduplicated =>
        unique = Select(all_events,
                    {j \in DOMAIN all_events :
                        ~ \E i \in 1..(j - 1) :
                            RatioExceeds(all_events[i].title, all_events[j].title)})

\* C6, amended: an event is removed exactly when the overlap ratio of its
\* title with the title of some event kept earlier in the same call is
\* greater than 0.6; the title of a removed event is not compared with.
C6_RemovedIffSimilarToEarlierKept ==
    Deduplicated =>
        \E K \in SUBSET DOMAIN all_events :
            /\ \A j \in DOMAIN all_events :
                  j \in K <=> ~ \E i \in K : i < j /\ RatioExceeds(all_events[i].title,
                                                                   all_events[j].title)
            /\ unique = Select(all_events, K)

\* the third event is similar to the second, which was removed, and not to
\* the first, and it is kept
C6_Witness ==
    /\ Deduplicated
    /\ Len(all_events) = 3
    /\ RatioExceeds(all_events[1].title, all_events[2].title)
    /\ RatioExceeds(all_events[2].title, all_events[3].title)
    /\ ~ RatioExceeds(all_events[1].title, all_events[3].title)
    /\ unique = <<all_events[1], all_events[3]>>

\* C7: deduplicate is a stable filter: it leaves its input list as it is, and
\* its output is a subsequence of the input: the same events, every field
\* unchanged, in their order in the input.
C7_StableFilter ==
    [][pc = "dedup" =>
            /\ all_events' = all_events
            /\ \E K \in SUBSET DOMAIN all_events : unique' = Select(all_events, K)]_vars

\* deduplicate has removed the event in the middle of three
C7_Witness ==
    /\ Deduplicated
    /\ Len(all_events) = 3
    /\ all_events[1] # all_events[3]
    /\ unique = Select(all_events, {1, 3})

\* C8: the first event of a non-empty input survives and no other survivor
\* has a title with an overlap ratio greater than 0.6 with it; of the two
\* events titled "AI chatbot sued for giving wrong medical advice" and "AI
\* chatbot sued over wrong medical advice given to patient", in this order,
\* only the first is returned.
C8_FirstOccurrenceKept ==
    (Deduplicated /\ all_events # <<>>) =>
        /\ unique # <<>>
        /\ unique[1] = all_events[1]
        /\ \A n \in 2..Len(unique) : ~ RatioExceeds(unique[1].title, unique[n].title)
        /\ Titles(all_events) = <<"AI chatbot sued for giving wrong medical advice",
                                  "AI chatbot sued over wrong medical advice given to patient">>
              => unique = <<all_events[1]>>

\* the two events of the scenario went through deduplicate
C8_Witness ==
    /\ Deduplicated
    /\ Titles(all_events) = <<"AI chatbot sued for giving wrong medical advice",
                              "AI chatbot sued over wrong medical advice given to patient">>
    /\ Titles(unique) = <<"AI chatbot sued for giving wrong medical advice">>

-----------------------------------------------------------------------------
(* Properties of the aggregation                                           *)

Zeros(keys) == [i \in DOMAIN keys |-> [key |-> keys[i], value |-> 0]]

\* C9: for every run of run_scan, the sum of the values of severity_counts
\* equals total, and total equals the number of events deduplicate returned
\* and the length of the returned events list.
C9_SeverityCountsSumToTotal ==
    result.by = "run_scan" =>
        /\ Sum(Values(result.severity_counts)) = result.total
        /\ result.total = Len(unique)
        /\ result.total = Len(deduplicate(all_events))
        /\ result.total = Len(result.events)

\* run_scan has returned after deduplicate removed an event, and two of the
\* events it counted have the same severity
C9_Witness ==
    /\ result.by = "run_scan"
    /\ result.total >= 2
    /\ result.total < Len(all_events)
    /\ \E i \in DOMAIN result.severity_counts : result.severity_counts[i].value >= 2

\* C10: aggregating an empty list of events does not raise: it yields
\* total = 0, the four severity keys and the seven layer keys with value 0,
\* and empty industry and metric mappings; the maxima generate_dashboard
\* divides by are not 0.
C10_EmptyListAggregates ==
    (pc = "done" /\ unique = <<>>) =>
        /\ result.by \in {"run_scan", "generate_dashboard"}
        /\ result.total = 0
        /\ result.severity_counts = Zeros(<<"Critical", "High", "Medium", "Low">>)
        /\ result.layer_counts = Zeros(<<"L1", "L2", "L3", "L4", "L5", "L6", "L7">>)
        /\ result.industry_counts = <<>>
        /\ result.metric_counts = <<>>
        /\ result.events = <<>>
        /\ result.by = "generate_dashboard" =>
              result.max_layer > 0 /\ result.max_ind > 0 /\ result.max_met > 0

\* every source was fetched, none delivered an event, and run_scan returned
C10_Witness ==
    /\ pc = "done"
    /\ Len(fetches) = NumFeeds + NumQueries + 1
    /\ all_events = <<>>
    /\ unique = <<>>
    /\ result.by = "run_scan"
    /\ result.total = 0

\* the number of events whose field f is key
WithField(events, f, key) == Cardinality({i \in DOMAIN events : events[i][f] = key})

\* the number of events whose list f contains key
WithItem(events, f, key) == Cardinality({i \in DOMAIN events : In(key, events[i][f])})

Returned == result.by \in {"run_scan", "generate_dashboard"}

\* C11: the keys of severity_counts are exactly Critical, High, Medium, Low
\* and the keys of layer_counts exactly L1..L7, each once; a key's value is the
\* number of events with that severity or layer, 0 when none has it, and
\* counting adds no other key.
C11_SeededKeysOnly ==
    Returned =>
        /\ Keys(result.severity_counts) = <<"Critical", "High", "Medium", "Low">>
        /\ Keys(result.layer_counts) = <<"L1", "L2", "L3", "L4", "L5", "L6", "L7">>
        /\ \A i \in DOMAIN result.severity_counts :
              result.severity_counts[i].value
                  = WithField(unique, "severity", result.severity_counts[i].key)
        /\ \A i \in DOMAIN result.layer_counts :
              result.layer_counts[i].value
                  = WithItem(unique, "sira_layers", result.layer_counts[i].key)

\* events were counted: a severity and a layer that occur, and a severity and
\* a layer that do not
C11_Witness ==
    /\ Returned
    /\ Len(unique) >= 2
    /\ \E i \in DOMAIN result.severity_counts : result.severity_counts[i].value = 0
    /\ \E i \in DOMAIN result.severity_counts : result.severity_counts[i].value >= 1
    /\ \E i \in DOMAIN result.layer_counts : result.layer_counts[i].value = 0
    /\ \E i \in DOMAIN result.layer_counts : result.layer_counts[i].value >= 2

\* the keys of a dict are pairwise different
DistinctKeys(d) == \A i, j \in DOMAIN d : d[i].key = d[j].key => i = j

\* counts descend, and of two keys with equal counts the one met first in
\* the counting loop comes first (met(key) is the place where key is met)
DescendingStable(d, met(_)) ==
    \A i, j \in DOMAIN d :
        i < j => \/ d[i].value > d[j].value
                 \/ d[i].value = d[j].value /\ met(d[i].key) < met(d[j].key)

\* the first event with this industry
FirstWithIndustry(key) == Min({i \in DOMAIN unique : unique[i].industry = key})

\* where the counting loop meets this metric first: the event i and the
\* place p in its list, as the number i * (Len(METRIC_SIGNALS) + 1) + p
FirstWithMetric(key) ==
    Min({ip[1] * (Len(METRIC_SIGNALS) + 1) + ip[2] :
            ip \in {ip \in (DOMAIN unique) \X (1..Len(METRIC_SIGNALS)) :
                        /\ ip[2] \in DOMAIN unique[ip[1]].sira_metrics
                        /\ unique[ip[1]].sira_metrics[ip[2]] = key}})

\* C12: industry_counts and metric_counts hold exactly the industries and
\* metrics that occur in an event, each once with its number of occurrences
\* (none with 0), in descending order of count; keys with equal counts are in
\* the order in which the counting loop met them first.
C12_OccurringKeysByCount ==
    Returned =>
        /\ DistinctKeys(result.industry_counts)
        /\ Range(Keys(result.industry_counts)) = {unique[i].industry : i \in DOMAIN unique}
        /\ \A k \in DOMAIN result.industry_counts :
              /\ result.industry_counts[k].value >= 1
              /\ result.industry_counts[k].value
                    = WithField(unique, "industry", result.industry_counts[k].key)
        /\ DescendingStable(result.industry_counts, FirstWithIndustry)
        /\ DistinctKeys(result.metric_counts)
        /\ Range(Keys(result.metric_counts))
              = UNION {Range(unique[i].sira_metrics) : i \in DOMAIN unique}
        /\ \A k \in DOMAIN result.metric_counts :
              /\ result.metric_counts[k].value >= 1
              /\ result.metric_counts[k].value
                    = WithItem(unique, "sira_metrics", result.metric_counts[k].key)
        /\ DescendingStable(result.metric_counts, FirstWithMetric)

\* three industries with one event each are in the order of the events, and a
\* metric met later than another comes first because it occurs more often
C12_Witness ==
    /\ Returned
    /\ Len(result.industry_counts) = 3
    /\ Keys(result.industry_counts) = [i \in 1..3 |-> unique[i].industry]
    /\ Len(result.metric_counts) = 2
    /\ result.metric_counts[1].value > result.metric_counts[2].value
    /\ FirstWithMetric(result.metric_counts[1].key) > FirstWithMetric(result.metric_counts[2].key)

\* the rank of a severity in the returned order
SeverityRank(severity) ==
    IF severity = "Critical" THEN 0 ELSE IF severity = "High" THEN 1
    ELSE IF severity = "Medium" THEN 2 ELSE IF severity = "Low" THEN 3 ELSE 4

\* the place of event i of the list in the list sorted by severity rank with
\* equal ranks in their order: after the events of smaller rank and the
\* earlier events of the same rank
SortedPlace(events, i) ==
    1 + Cardinality({j \in DOMAIN events :
                        \/ SeverityRank(events[j].severity) < SeverityRank(events[i].severity)
                        \/ /\ SeverityRank(events[j].severity) = SeverityRank(events[i].severity)
                           /\ j < i})

\* C13: the returned events are the deduplicated events, each once, in
\* ascending severity rank (Critical 0, High 1, Medium 2, Low 3), events of
\* equal severity in their order in the deduplicated list; the counts are
\* those of the events in either order.
C13_EventsSortedBySeverity ==
    Returned =>
        /\ Len(result.events) = Len(unique)
        /\ \A i \in DOMAIN unique : result.events[SortedPlace(unique, i)] = unique[i]
        /\ \A i, j \in DOMAIN result.events :
              i < j => SeverityRank(result.events[i].severity)
                          <= SeverityRank(result.events[j].severity)
        /\ \A i \in DOMAIN result.events : SeverityRank(result.events[i].severity) <= 3
        /\ result.total = Len(result.events)
        /\ \A k \in DOMAIN result.severity_counts :
              result.severity_counts[k].value
                  = WithField(result.events, "severity", result.severity_counts[k].key)
        /\ \A k \in DOMAIN result.layer_counts :
              result.layer_counts[k].value
                  = WithItem(result.events, "sira_layers", result.layer_counts[k].key)
        /\ \A k \in DOMAIN result.industry_counts :
              result.industry_counts[k].value
                  = WithField(result.events, "industry", result.industry_counts[k].key)
        /\ \A k \in DOMAIN result.metric_counts :
              result.metric_counts[k].value
                  = WithItem(result.events, "sira_metrics", result.metric_counts[k].key)

\* the sort moved a Critical event in front of a High one, and two High
\* events are in their order in the deduplicated list
C13_Witness ==
    /\ Returned
    /\ Len(unique) = 3
    /\ [i \in 1..3 |-> unique[i].severity] = <<"High", "Critical", "High">>
    /\ unique[1] # unique[3]
    /\ result.events = <<unique[2], unique[1], unique[3]>>

\* list a is the beginning of list b
IsPrefix(a, b) == Len(a) <= Len(b) /\ SubSeq(b, 1, Len(a)) = a

\* the step fetched a source
Fetched == Len(fetches') = Len(fetches) + 1

\* the step fetched a source and the fetch did not end well
FailedFetch == Fetched /\ outcome' \in {"raised", "raised_in_loop"}

\* the number of sources of a run
NumSources == NumFeeds + NumQueries + 1

\* every event of the sources with no similar title among the other events
\* is returned
UnrivalledReturned ==
    \A i \in DOMAIN all_events :
        (\A j \in DOMAIN all_events :
            j # i => ~is_similar(all_events[i].title, all_events[j].title))
        => \E k \in DOMAIN result.events : result.events[k] = all_events[i]

\* C14 as stated: a source that fails, in the request or while its response
\* is processed, adds no event.
C14_FailedSourceYieldsNothing == [][FailedFetch => all_events' = all_events]_vars

\* C14: a source whose request fails adds no event, and a source whose
\* response raises while it is processed adds only events of its own after
\* those of the earlier sources; no fetch removes an event of another
\* source, every source is fetched whatever the others did, the run returns
\* a result, and the events of all sources are returned up to deduplication.
C14_SourcesFailIndependently ==
    /\ [][/\ Fetched => IsPrefix(all_events, all_events')
          /\ FailedFetch /\ outcome' = "raised" => all_events' = all_events
          /\ FailedFetch /\ outcome' = "raised_in_loop" =>
                /\ fetches'[Len(fetches')] = "incidents"
                /\ \A i \in (Len(all_events) + 1)..Len(all_events') :
                       all_events'[i].source = "AI Incident Database"
          /\ FailedFetch => pc' \in {"rss", "news", "incident", "dedup"}
          /\ pc = "dedup" => pc' = "aggregate"
          /\ pc = "aggregate" => Returned' /\ all_events' = all_events]_vars
    /\ [](pc \in {"dedup", "aggregate", "done"} => Len(fetches) = NumSources)
    /\ [](Returned => UnrivalledReturned)

\* the feeds failed or delivered nothing, a query delivered an event, and the
\* incident API raised on its second incident: the run goes on with both events
C14_Witness ==
    /\ pc = "dedup"
    /\ outcome = "raised_in_loop"
    /\ Len(all_events) = 2
    /\ all_events[1].source = "Google News"
    /\ all_events[2].source = "AI Incident Database"

\* the event carries the fields classification assigns
Classified(event) ==
    /\ Len(event.sira_layers) >= 1
    /\ Len(event.sira_metrics) >= 1
    /\ event.industry # "Unknown"
    /\ event.medha_audit_angle # ""

\* C15 as stated: a classified document exists only when every source of the
\* run has been fetched.
C15_ClassifiedOnlyAfterAllFetches ==
    (\E i \in DOMAIN all_events : Classified(all_events[i])) => Len(fetches) = NumSources

\* C15: deduplication starts only when every source of the run has been
\* fetched or has failed, aggregation only after deduplication, and neither
\* while a fetch is still to come; classification is not a stage of its
\* own: every document is classified in the step that fetches its source,
\* and is not touched afterwards.
C15_DedupAndAggregationAfterFetches ==
    [][/\ Fetched =>
            /\ \A i \in (Len(all_events) + 1)..Len(all_events') : Classified(all_events'[i])
            /\ unique' = <<>> /\ result' = NoResult
       /\ Len(fetches') >= Len(fetches) => IsPrefix(all_events, all_events')
       /\ unique' # unique /\ unique' # <<>> =>
            /\ Len(fetches) = NumSources
            /\ <<fetches', all_events'>> = <<fetches, all_events>>
            /\ result = NoResult /\ result' = NoResult
       /\ result' # result /\ result' # NoResult =>
            /\ Len(fetches) = NumSources
            /\ pc = "aggregate"
            /\ <<fetches', all_events', unique'>> = <<fetches, all_events, unique>>]_vars

\* the first feed delivered a classified event while the other sources were
\* still to be fetched
C15_Witness ==
    /\ Len(fetches) = 1
    /\ Len(all_events) = 1
    /\ Classified(all_events[1])
    /\ all_events[1].source = feeds[1]

\* the sources of a run in the order the run fetches them
SourceOrder ==
    SubSeq(feeds, 1, NumFeeds) \o SubSeq(queries, 1, NumQueries) \o <<"incidents">>

\* C16: within a run no source is fetched twice, whether its fetch failed or
\* not: the fetches of the run are the first sources of the fixed order, each
\* once.
C16_EachSourceFetchedAtMostOnce ==
    /\ \A i, j \in DOMAIN fetches : fetches[i] = fetches[j] => i = j
    /\ Len(fetches) <= NumSources
    /\ fetches = SubSeq(SourceOrder, 1, Len(fetches))
    /\ \A i, j \in DOMAIN SourceOrder : SourceOrder[i] = SourceOrder[j] => i = j

\* the last source of the run failed after all others were fetched, and the
\* run goes on to deduplication with each source fetched once
C16_Witness ==
    /\ pc = "dedup"
    /\ outcome = "raised"
    /\ Len(fetches) = NumSources
    /\ Len(all_events) >= 1

\* the fields classification assigns to an event
Classification(event) ==
    <<event.sira_layers, event.sira_metrics, event.severity, event.industry>>

\* C17 as stated: two events with equal title and equal summary have equal
\* layers, metrics, severity and industry.
C17_DeterminedByStoredTitleAndSummary ==
    \A i, j \in DOMAIN all_events :
        all_events[i].title = all_events[j].title /\ all_events[i].summary = all_events[j].summary
            => Classification(all_events[i]) = Classification(all_events[j])

\* C17: the classification of an event is determined by the combined text it
\* was classified on, the title as delivered, a space and the summary text
\* as classified (its first 500 characters for a feed entry, the whole
\* description for an incident): two events with equal combined texts
\* have equal layers, metrics, severity and industry, from whatever source.
C17_DeterminedByCombinedText ==
    \A i, j \in DOMAIN all_events :
        TextOf(all_events[i]) = TextOf(all_events[j])
            => Classification(all_events[i]) = Classification(all_events[j])

\* the same entry was delivered by a feed and by a query, and an incident
\* with a description of more than 300 characters was classified on all of it
C17_Witness ==
    /\ Len(all_events) = 3
    /\ all_events[1].source # all_events[2].source
    /\ all_events[1].url = all_events[2].url
    /\ TextOf(all_events[1]) = TextOf(all_events[2])
    /\ all_events[3].source = "AI Incident Database"
    /\ Len(all_events[3].summary) = 300
    /\ Len(TextOf(all_events[3])) > Len(all_events[3].title) + 301

\* the codes of the rules of the audit angle in their priority order; rules
\* 1 and 4 look at the layers, the others at the metrics
RulePriority == <<"L7", "HR", "HHI", "L6", "BAI", "CRR", "MY">>

\* the classification outcomes the audit angle is checked on: every set of
\* layers and every set of metrics, each as a list in the order of its catalog
AngleInputs ==
    {[sira_layers |-> Select([k \in DOMAIN LAYER_SIGNALS |-> LAYER_SIGNALS[k].label], K),
      sira_metrics |-> Select([k \in DOMAIN METRIC_SIGNALS |-> METRIC_SIGNALS[k].label], M)] :
        K \in SUBSET (1..Len(LAYER_SIGNALS)), M \in SUBSET (1..Len(METRIC_SIGNALS))}

\* the rules that trigger on an input, as indices of RulePriority
Triggered(input) ==
    {k \in DOMAIN RulePriority :
        In(RulePriority[k], IF k \in {1, 4} THEN input.sira_layers ELSE input.sira_metrics)}

\* the input on which rule k alone triggers, and the message of rule k: the
\* audit angle of that input without its last character
OnlyRule(k) ==
    IF k \in {1, 4} THEN [sira_layers |-> <<RulePriority[k]>>, sira_metrics |-> <<"MG">>]
    ELSE [sira_layers |-> <<"L4">>, sira_metrics |-> <<RulePriority[k]>>]

RuleMessage ==
    [k \in DOMAIN RulePriority |->
        SubSeq(generate_audit_angle(OnlyRule(k)), 1, Len(generate_audit_angle(OnlyRule(k))) - 1)]

\* the audit angle of an input on which a rule triggers is the message of the
\* first triggered rule in priority order, then ". " and the message of the
\* second one when there is one, then "."
FirstTwoTriggered(input, angle) ==
    LET first  == Min(Triggered(input))
        others == Triggered(input) \ {first}
    IN  angle = RuleMessage[first]
                    \o (IF others = {} THEN "" ELSE ". " \o RuleMessage[Min(others)]) \o "."

AngleRulesHold ==
    /\ \A k \in DOMAIN RulePriority :
          /\ Triggered(OnlyRule(k)) = {k}
          /\ Len(RuleMessage[k]) >= 1
          /\ generate_audit_angle(OnlyRule(k)) = RuleMessage[k] \o "."
          /\ \A j \in DOMAIN RulePriority : RuleMessage[j] = RuleMessage[k] => j = k
    /\ \A input \in AngleInputs :
          Triggered(input) # {} => FirstTwoTriggered(input, generate_audit_angle(input))

\* C18: generate_audit_angle returns the messages of the first two rules
\* that trigger in the order L7, HR, HHI, L6, BAI, CRR, MY (of the only one
\* when one triggers), joined with ". " and ended with "."; the rules that
\* trigger after the second add nothing.  So does the audit angle of every
\* event a scanner has produced.
C18_FirstTwoRulesInPriorityOrder ==
    /\ AngleRulesHold
    /\ \A i \in DOMAIN all_events :
          Triggered(all_events[i]) # {} =>
              FirstTwoTriggered(all_events[i], all_events[i].medha_audit_angle)

\* an event on which the rules L7, HR, HHI and CRR trigger carries the
\* messages of L7 and HR only
C18_Witness ==
    \E i \in DOMAIN all_events :
        /\ Triggered(all_events[i]) = {1, 2, 3, 6}
        /\ all_events[i].sira_metrics = <<"CRR", "HR", "HHI">>
        /\ all_events[i].medha_audit_angle = RuleMessage[1] \o ". " \o RuleMessage[2] \o "."

\* the number of periods of a text: each sentence of an audit angle ends
\* with one
Periods(s) == Cardinality({i \in 1..Len(s) : Char(s, i) = "."})

\* the fallback sentence on the layer codes of an input, the codes as they
\* are and in their order, separated by ", "
FallbackSentence(input) ==
    "SIRA layers " \o join(", ", input.sira_layers)
        \o " exposed -- standard risk assessment missed this."

\* the text begins with the words of the fallback sentence
IsFallback(angle) == Len(angle) >= 12 /\ SubSeq(angle, 1, 12) = "SIRA layers "

\* the audit angle of an input is not empty, ends with a period and has one
\* or two sentences; it is the fallback sentence when no rule triggers, and
\* holds no fallback when one does
AngleShape(input, angle) ==
    /\ Len(angle) >= 2
    /\ Char(angle, Len(angle)) = "."
    /\ Periods(angle) \in {1, 2}
    /\ Triggered(input) = {} => angle = FallbackSentence(input) /\ Periods(angle) = 1
    /\ Triggered(input) # {} =>
          /\ ~ IsFallback(angle)
          /\ Periods(angle) = (IF Cardinality(Triggered(input)) = 1 THEN 1 ELSE 2)
          /\ \A n \in 1..Len(angle) : ~ IsFallback(SubSeq(angle, n, Len(angle)))

\* the audit angle of every input
AngleTable == [input \in AngleInputs |-> generate_audit_angle(input)]

\* the layers and the metrics of an event, and nothing else of it
LayersAndMetrics(event) ==
    [sira_layers |-> event.sira_layers, sira_metrics |-> event.sira_metrics]

AngleShapeHolds == \A input \in AngleInputs : AngleShape(input, AngleTable[input])

\* C19: the audit angle is never empty and has at most two sentences; when
\* the layers hold neither L6 nor L7 and the metrics none of HR, HHI, BAI,
\* CRR, MY it is the one fallback sentence naming the layer codes as they
\* are, and when a rule triggers it holds no fallback sentence.  The audit
\* angle of every event a scanner has produced is one of these.
C19_NonEmptyAtMostTwoSentences ==
    /\ AngleShapeHolds
    /\ \A i \in DOMAIN all_events :
          /\ LayersAndMetrics(all_events[i]) \in AngleInputs
          /\ all_events[i].medha_audit_angle = AngleTable[LayersAndMetrics(all_events[i])]

\* an event with no triggered rule carries the fallback with its layer code,
\* and an event with one triggered rule carries one sentence and no fallback
C19_Witness ==
    /\ \E i \in DOMAIN all_events :
          /\ Triggered(all_events[i]) = {}
          /\ all_events[i].medha_audit_angle
                = "SIRA layers L4 exposed -- standard risk assessment missed this."
    /\ \E i \in DOMAIN all_events :
          /\ Cardinality(Triggered(all_events[i])) = 1
          /\ Periods(all_events[i].medha_audit_angle) = 1
          /\ ~ IsFallback(all_events[i].medha_audit_angle)

\* the audit angle of an event built with the dataclass defaults, before any
\* classification
UnclassifiedAngle == generate_audit_angle([sira_layers |-> <<>>, sira_metrics |-> <<>>])

\* C20: the audit angle of every event a scanner has produced is the one
\* generate_audit_angle gives on the layers and metrics classification
\* assigned to that event, not the one of the event before classification,
\* and two events with equal layers and equal metrics have equal audit
\* angles whatever their other fields.
C20_AngleFromAssignedLayersAndMetrics ==
    /\ \A i \in DOMAIN all_events :
          /\ all_events[i].sira_layers # <<>> /\ all_events[i].sira_metrics # <<>>
          /\ all_events[i].medha_audit_angle = AngleTable[LayersAndMetrics(all_events[i])]
          /\ all_events[i].medha_audit_angle # UnclassifiedAngle
          /\ Triggered(all_events[i]) = {} =>
                all_events[i].medha_audit_angle = FallbackSentence(all_events[i])
    /\ \A i, j \in DOMAIN all_events :
          LayersAndMetrics(all_events[i]) = LayersAndMetrics(all_events[j])
              => all_events[i].medha_audit_angle = all_events[j].medha_audit_angle

\* two events of different sources that differ in title, severity and
\* industry have the same layers and metrics and the same audit angle, and a
\* third event with other metrics has another one
C20_Witness ==
    /\ Len(all_events) = 3
    /\ LayersAndMetrics(all_events[1]) = LayersAndMetrics(all_events[2])
    /\ all_events[1].title # all_events[2].title
    /\ all_events[1].source # all_events[2].source
    /\ all_events[1].severity # all_events[2].severity
    /\ all_events[1].industry # all_events[2].industry
    /\ all_events[1].medha_audit_angle = all_events[2].medha_audit_angle
    /\ all_events[3].sira_layers = all_events[1].sira_layers
    /\ all_events[3].sira_metrics # all_events[1].sira_metrics
    /\ all_events[3].medha_audit_angle # all_events[1].medha_audit_angle

\* the texts of whitespace only, the empty text among them
Blank == {text \in Texts : strip(text) = ""}

\* the texts on which no pattern of any catalog matches
PatternFree ==
    {text \in SignalFree :
        /\ ~ TierMatches[text].critical /\ ~ TierMatches[text].high /\ ~ TierMatches[text].medium
        /\ IndustryMatches[text] = {}}

\* C21: on the empty text, on a text of whitespace only and on every text
\* that matches no pattern of any catalog, the four classifiers return a
\* value, and it is the default: layers [L4], metrics [MG], severity Low,
\* industry General/Cross-Industry.  An event classified on such a text
\* carries the defaults.
C21_DefaultsOnPatternFreeText ==
    /\ "" \in Blank
    /\ Blank \subseteq PatternFree
    /\ \A text \in PatternFree :
          /\ memo.classify_sira_layers[text] = <<"L4">>
          /\ memo.classify_sira_metrics[text] = <<"MG">>
          /\ memo.estimate_severity[text] = "Low"
          /\ memo.detect_industry[text] = "General/Cross-Industry"
    /\ \A i \in DOMAIN all_events :
          TextOf(all_events[i]) \in PatternFree =>
              /\ Classification(all_events[i]) = <<<<"L4">>, <<"MG">>, "Low", "General/Cross-Industry">>

\* an entry without title and with an empty summary, classified on a single
\* space, and an entry whose text is not blank and matches no pattern, both
\* with the defaults
C21_Witness ==
    /\ \E i \in DOMAIN all_events :
          /\ TextOf(all_events[i]) = " "
          /\ all_events[i].title = ""
          /\ Classification(all_events[i]) = <<<<"L4">>, <<"MG">>, "Low", "General/Cross-Industry">>
    /\ \E i \in DOMAIN all_events :
          /\ TextOf(all_events[i]) \in PatternFree \ Blank
          /\ all_events[i].severity = "Low"

\* the title of the scenario, and the combined text of a feed entry with
\* that title and no summary
ScenarioTitle == "AI chatbot sued for giving wrong medical advice"
ScenarioText == ScenarioTitle \o " "

\* the layers of the catalog with a pattern that matches the text
LayersMatching(text) ==
    {LAYER_SIGNALS[k].label : k \in {k \in DOMAIN LAYER_SIGNALS : Matches(LAYER_SIGNALS[k].patterns, text)}}

\* the layers that match the text of the scenario
ScenarioLayers == LayersMatching(ScenarioText)

\* the events of the scenario: that title and no summary
IsScenario(event) == event.title = ScenarioTitle /\ event.summary = ""

\* C22 as stated: the document of the scenario has L6 and L4 among its layers.
C22_ScenarioLayersL6AndL4 ==
    \A i \in DOMAIN all_events :
        IsScenario(all_events[i]) =>
            In("L6", all_events[i].sira_layers) /\ In("L4", all_events[i].sira_layers)

\* C22: the combined text of the scenario matches patterns of layer L5 only
\* ("chatbot sued"); no pattern of L4 matches "wrong medical advice" and no
\* pattern of L6 matches "AI chatbot", so the document is classified with
\* the layers [L5].
C22_ScenarioLayerIsL5 ==
    /\ ScenarioText \in Texts
    /\ ScenarioLayers = {"L5"}
    /\ memo.classify_sira_layers[ScenarioText] = <<"L5">>
    /\ \A i \in DOMAIN all_events :
          IsScenario(all_events[i]) =>
              /\ TextOf(all_events[i]) = ScenarioText
              /\ all_events[i].sira_layers = <<"L5">>

\* a feed delivered the document of the scenario
C22_Witness ==
    \E i \in DOMAIN all_events :
        /\ IsScenario(all_events[i])
        /\ all_events[i].source = feeds[1]
        /\ all_events[i].sira_layers = <<"L5">>

\* re.search finds the High pattern "sued" in the text of the scenario
ScenarioSued == In("sued", high_patterns) /\ re_search("sued", lower(ScenarioText))

\* C23: the combined text of the scenario matches a High pattern ("sued")
\* and no Critical pattern, and its first industry with a matching pattern
\* is Healthcare ("medical"): the document is classified with severity
\* High and industry Healthcare.
C23_ScenarioSeverityAndIndustry ==
    /\ ScenarioText \in Texts
    /\ ScenarioSued
    /\ ~ TierMatches[ScenarioText].critical
    /\ TierMatches[ScenarioText].high
    /\ IndustryMatches[ScenarioText] # {}
    /\ industries[Min(IndustryMatches[ScenarioText])].label = "Healthcare"
    /\ memo.estimate_severity[ScenarioText] = "High"
    /\ memo.detect_industry[ScenarioText] = "Healthcare"
    /\ \A i \in DOMAIN all_events :
          IsScenario(all_events[i]) =>
              all_events[i].severity = "High" /\ all_events[i].industry = "Healthcare"

\* a query delivered the document of the scenario: High and Healthcare
C23_Witness ==
    \E i \in DOMAIN all_events :
        /\ IsScenario(all_events[i])
        /\ all_events[i].source = "Google News"
        /\ all_events[i].severity = "High"
        /\ all_events[i].industry = "Healthcare"

\* the title of the second scenario, and the combined text of an entry with
\* that title and no summary
GainTitle == "Company reports 3x productivity gain from AI adoption"
GainText == GainTitle \o " "

\* the metrics of the catalog with a pattern that matches the text
MetricsMatching(text) ==
    {METRIC_SIGNALS[k].label :
        k \in {k \in DOMAIN METRIC_SIGNALS : Matches(METRIC_SIGNALS[k].patterns, text)}}

\* re.search finds "productivity" in the text of the second scenario
GainProductivity == re_search("productivity", lower(GainText))

\* the layers and the metrics that match the text of the second scenario
GainLayers == LayersMatching(GainText)
GainMetrics == MetricsMatching(GainText)

\* C24: the text "Company reports 3x productivity gain from AI adoption"
\* matches no layer pattern, the MY pattern "productivity", no severity
\* pattern and no industry pattern: its document has the default layers
\* [L4], metrics with MY, severity Low and industry General/Cross-Industry.
C24_ProductivityGainScenario ==
    /\ GainText \in Texts
    /\ GainLayers = {}
    /\ "MY" \in GainMetrics
    /\ GainProductivity
    /\ TierMatches[GainText] = [critical |-> FALSE, high |-> FALSE, medium |-> FALSE]
    /\ IndustryMatches[GainText] = {}
    /\ memo.classify_sira_layers[GainText] = <<"L4">>
    /\ In("MY", memo.classify_sira_metrics[GainText])
    /\ memo.estimate_severity[GainText] = "Low"
    /\ memo.detect_industry[GainText] = "General/Cross-Industry"
    /\ \A i \in DOMAIN all_events :
          all_events[i].title = GainTitle /\ all_events[i].summary = "" =>
              /\ all_events[i].sira_layers = <<"L4">>
              /\ In("MY", all_events[i].sira_metrics)
              /\ all_events[i].severity = "Low"
              /\ all_events[i].industry = "General/Cross-Industry"

\* a query delivered the document of the second scenario (no feed does: the
\* text has no disaster keyword)
C24_Witness ==
    \E i \in DOMAIN all_events :
        /\ all_events[i].title = GainTitle
        /\ all_events[i].source = "Google News"
        /\ Classification(all_events[i]) = <<<<"L4">>, <<"MY">>, "Low", "General/Cross-Industry">>

\* the local variables of the calls other than s
Others(s) == [t \in Scans \ {s} |-> invocations[t]]

\* C25: concurrent scans do not interfere.  The seen titles of a call of
\* deduplicate are empty when the call starts and are the titles that call
\* has kept; no step changes the tabulated catalogs, and a step of one scan
\* leaves the local variables of the other scans alone; a scan that has
\* deduplicated holds the list deduplicate gives on its own documents, and a
\* scan that has returned holds the result of run_scan on them, whatever
\* the other scans did in between.
C25_ConcurrentScansIndependent ==
    /\ [][/\ memo' = memo
          /\ \A s \in Scans :
                /\ invocations'[s] # invocations[s] => Others(s)' = Others(s)
                /\ invocations[s].pc # "dedup" /\ invocations'[s].pc = "dedup"
                      => invocations'[s].seen_titles = <<>> /\ invocations'[s].unique = <<>>]_vars
    /\ [](\A s \in Scans :
            /\ invocations[s].seen_titles
                  = [k \in DOMAIN invocations[s].unique |-> invocations[s].unique[k].title]
            /\ invocations[s].pc = "dedup" =>
                  invocations[s].unique
                      = deduplicate(SubSeq(invocations[s].all_events, 1, invocations[s].i - 1))
            /\ invocations[s].pc \in {"aggregate", "done"} =>
                  invocations[s].unique = deduplicate(invocations[s].all_events)
            /\ invocations[s].pc = "done" =>
                  invocations[s].result = Aggregate(deduplicate(invocations[s].all_events), Days))

\* two scans are in their deduplicate loops at the same time, each with a
\* seen title of its own, and the first has just dropped a document
C25_Witness ==
    /\ invocations[1].pc = "dedup" /\ invocations[2].pc = "dedup"
    /\ invocations[1].i = 3 /\ Len(invocations[1].unique) = 1
    /\ invocations[2].i = 2 /\ Len(invocations[2].seen_titles) = 1
    /\ invocations[1].seen_titles = invocations[2].seen_titles

\* the text has the form YYYY-MM-DD
IsDate(s) ==
    /\ Len(s) = 10
    /\ \A k \in {1, 2, 3, 4, 6, 7, 9, 10} : IndexOf(Char(s, k), DigitChars) # 0
    /\ Char(s, 5) = "-" /\ Char(s, 8) = "-"

\* C26: the published field of every event a scanner has produced is a date
\* of the form YYYY-MM-DD or "Unknown".
C26_PublishedIsDateOrUnknown ==
    \A i \in DOMAIN all_events :
        all_events[i].published = "Unknown" \/ IsDate(all_events[i].published)

\* the labels of the entries of a catalog with a pattern that matches the
\* text, in the order of the catalog
MatchingInOrder(signals, text) ==
    Select([k \in DOMAIN signals |-> signals[k].label],
           {k \in DOMAIN signals : Matches(signals[k].patterns, text)})

\* the layers and the metrics that match, for every text
MatchingTable ==
    [text \in Texts |-> [layers  |-> MatchingInOrder(LAYER_SIGNALS, text),
                         metrics |-> MatchingInOrder(METRIC_SIGNALS, text)]]

\* C27: when a layer matches, classify_sira_layers returns the layers that
\* have a matching pattern, all of them, each once, in the order L1..L7 of
\* the catalog; classify_sira_metrics does the same over MY, CRR, BAI, HR,
\* HHI, MG.  So do the layers and metrics of every event.
C27_AllMatchingLabelsInCatalogOrder ==
    /\ \A text \in Texts :
          /\ MatchingTable[text].layers # <<>> =>
                memo.classify_sira_layers[text] = MatchingTable[text].layers
          /\ MatchingTable[text].metrics # <<>> =>
                memo.classify_sira_metrics[text] = MatchingTable[text].metrics
    /\ \A i \in DOMAIN all_events :
          /\ MatchingTable[TextOf(all_events[i])].layers # <<>> =>
                all_events[i].sira_layers = MatchingTable[TextOf(all_events[i])].layers
          /\ MatchingTable[TextOf(all_events[i])].metrics # <<>> =>
                all_events[i].sira_metrics = MatchingTable[TextOf(all_events[i])].metrics

\* an event on which two layers and three metrics match carries them all in
\* catalog order, and an event on which layers L4 and L5 match carries both
C27_Witness ==
    /\ \E i \in DOMAIN all_events :
          /\ MatchingTable[TextOf(all_events[i])].layers = <<"L5", "L7">>
          /\ all_events[i].sira_layers = <<"L5", "L7">>
          /\ all_events[i].sira_metrics = <<"CRR", "HR", "HHI">>
    /\ \E i \in DOMAIN all_events : all_events[i].sira_layers = <<"L4", "L5">>

\* the title of the event has no words: it is empty or punctuation only
Wordless(event) == memo.TitleWordSet[event.title] = {}

WordlessIn(events) == {k \in DOMAIN events : Wordless(events[k])}

\* C28: an event whose normalized title has no words is never similar to
\* anything: deduplicate keeps every such event, also several with the same
\* title, the other events are kept and removed as if it was not in the
\* list, and the ratio is never computed with min(len, len) = 0.
C28_WordlessTitleNeverSimilar ==
    /\ Deduplicated =>
          /\ Select(unique, WordlessIn(unique)) = Select(all_events, WordlessIn(all_events))
          /\ Select(unique, DOMAIN unique \ WordlessIn(unique))
                = deduplicate(Select(all_events, DOMAIN all_events \ WordlessIn(all_events)))
    /\ \A i, j \in DOMAIN all_events :
          LET a == all_events[i].title
              b == all_events[j].title
          IN  /\ (Wordless(all_events[i]) \/ Wordless(all_events[j])) => ~ is_similar(a, b)
              /\ ~ (Wordless(all_events[i]) \/ Wordless(all_events[j])) => SmallerWordSet(a, b) # 0

\* two events with the same title "???", from a query and from the incident
\* API, went through deduplicate after an event with words, and all three
\* are kept
C28_Witness ==
    /\ Deduplicated
    /\ Len(all_events) = 3
    /\ ~ Wordless(all_events[1])
    /\ all_events[2].title = "???" /\ all_events[3].title = "???"
    /\ all_events[2].source # all_events[3].source
    /\ normalize(all_events[2].title) = ""
    /\ unique = all_events

\* C29: seen_titles holds the titles of the kept events only.  So after
\* deduplicate (a) no two surviving events have titles with an overlap ratio
\* greater than 0.6, (b) every removed event has a ratio greater than 0.6
\* with a survivor that precedes it in the input, and an event that is
\* similar to no earlier survivor, if only to an earlier removed event, is
\* kept.
C29_SeenTitlesAreKeptTitles ==
    Deduplicated =>
        /\ DedupLoop(all_events, 1, <<>>, <<>>).seen_titles = Titles(unique)
        /\ \A i, j \in DOMAIN unique :
              i < j => ~ RatioExceeds(unique[i].title, unique[j].title)
        /\ \E K \in SUBSET DOMAIN all_events :
              /\ unique = Select(all_events, K)
              /\ \A j \in DOMAIN all_events \ K :
                    \E i \in K : i < j /\ RatioExceeds(all_events[i].title, all_events[j].title)
              /\ \A j \in DOMAIN all_events :
                    (\A i \in K : i < j => ~ RatioExceeds(all_events[i].title,
                                                          all_events[j].title))
                        => j \in K

\* of three events the second is removed as similar to the first, its title
\* is not in seen_titles, and the third, similar to the second only, is kept
C29_Witness ==
    /\ Deduplicated
    /\ Len(all_events) = 3
    /\ DedupLoop(all_events, 1, <<>>, <<>>).seen_titles
            = <<all_events[1].title, all_events[3].title>>
    /\ Titles(unique) = <<all_events[1].title, all_events[3].title>>
    /\ RatioExceeds(all_events[2].title, all_events[3].title)
    /\ ~ RatioExceeds(all_events[1].title, all_events[3].title)

\* the fields of a result that run_scan and generate_dashboard both compute
AggregateFields ==
    {"total", "severity_counts", "layer_counts", "industry_counts", "metric_counts", "events"}

\* C30: the two aggregators agree: on the deduplicated list of a run,
\* run_scan and generate_dashboard compute the same total, the same
\* severity_counts and layer_counts, the same industries and metrics with
\* the same counts in the same order, and the same order of the events.
C30_AggregatorsAgree ==
    Returned =>
        \A f \in AggregateFields :
            result[f] = IF result.by = "run_scan"
                        THEN DashboardStats(unique, Days)[f]
                        ELSE Aggregate(unique, Days)[f]

\* generate_dashboard returned on three events which the sort reorders, two
\* of them of one industry that was not met first, and run_scan gives the
\* same on them
C30_Witness ==
    /\ Returned
    /\ result.by = "generate_dashboard"
    /\ Len(unique) = 3
    /\ result.events # unique
    /\ result.industry_counts[1].value = 2
    /\ result.industry_counts[1].key # unique[1].industry
    /\ result.events = Aggregate(unique, Days).events
    /\ result.industry_counts = Aggregate(unique, Days).industry_counts

====
